---- MODULE Spec2Model ----
(***************************************************************************)
(* Lambda-delay analysis (scudderfish/lambdadelay).                        *)
(*                                                                         *)
(* Numbers.  JavaScript numbers are modelled as integers in fixed point:   *)
(* every real quantity of the program (time in s, pulsewidth in ms, lambda,*)
(* delays in ms) is carried as value * 100.  So time 10.18 s is 1018, a    *)
(* delay of 180 ms is 18000, PW_CHANGE_THRESHOLD 0.5 is 50.  A product     *)
(* x * 1000 of the code is the same product here; where the code divides   *)
(* (delay / 1000, x / n) the model either multiplies the comparison        *)
(* through or uses floor division, as noted at the definition.  RPM and    *)
(* load are only compared, never scaled, and are plain integers.           *)
(*                                                                         *)
(* Arrays.  A JavaScript array is a sequence; At(arr, i) is arr[i] with    *)
(* the code's 0-based index.  null is the empty sequence NULL and a        *)
(* present number v is <<v>>, so that "absent" is distinct from 0.         *)
(***************************************************************************)
EXTENDS Integers, Sequences, FiniteSets, TLC

VARIABLES
    input,          \* argument of the pure function under check
    output,         \* its result (NotRun before the call)
    config,         \* this.config
    data,           \* this.data, the Sample Store
    rpmBoundaries,  \* this.rpmBoundaries
    loadBoundaries, \* this.loadBoundaries
    buckets,        \* this.buckets[i][j] = {data, delays}
    table,          \* the delay table built from the buckets
    phase,          \* position of the calling script
    delayTable,     \* table handed to the Validator
    errors,         \* result of calculateLambdaErrors
    allResults,     \* meta-analysis: results of the analysed sessions
    failed,         \* meta-analysis: files whose analysis threw
    bucketStats,    \* meta-analysis: cross-session statistics
    masterTable,    \* meta-analysis: master delay table
    numCPUs,        \* parallel script: os.cpus().length
    fileIndex,      \* worker pool: next item to dispatch
    completed,      \* worker pool: workers that have reported
    activeWorkers,  \* worker pool: counter of processFilesInParallel
    workers,        \* worker pool: the state of each started worker
    results,        \* worker pool: results collected so far
    promise,        \* worker pool: state of the promise of each pool
    tempFiles,      \* the temporary worker scripts that exist on disk
    columnsFound,   \* whether the log has the required columns
    consoleLog,     \* what console.log is bound to
    printed,        \* the lines that reached the terminal
    exported,       \* content of lambda_delay_table.json (NULL: not written)
    exitCode        \* process exit status (NULL: still running)

fnVars == <<input, output>>
analyzerVars == <<config, data, rpmBoundaries, loadBoundaries, buckets, table>>
validatorVars == <<delayTable, errors>>
metaVars == <<allResults, failed, bucketStats, masterTable>>
poolVars == <<numCPUs, fileIndex, completed, activeWorkers, workers, results,
              promise, tempFiles>>
ioVars == <<columnsFound, consoleLog, printed, exported, exitCode>>
vars == <<input, output, config, data, rpmBoundaries, loadBoundaries, buckets,
          table, phase, delayTable, errors, allResults, failed, bucketStats,
          masterTable, numCPUs, fileIndex, completed, activeWorkers, workers,
          results, promise, tempFiles, columnsFound, consoleLog, printed,
          exported, exitCode>>

----------------------------------------------------------------------------
(* Generic helpers                                                         *)

NULL == <<>>

Some(v) == <<v>>

Val(o) == o[1]

NotRun == "not run"

At(arr, i) == arr[i + 1]

Abs(x) == IF x < 0 THEN 0 - x ELSE x

Sign(x) == IF x > 0 THEN 1 ELSE IF x < 0 THEN 0 - 1 ELSE 0

MinOf(a, b) == IF a < b THEN a ELSE b

SetMin(S) == CHOOSE x \in S : \A y \in S : x <= y

RECURSIVE SumSeq(_)
SumSeq(s) == IF s = <<>> THEN 0 ELSE Head(s) + SumSeq(Tail(s))

RECURSIVE SqrtBetween(_, _, _)
SqrtBetween(n, lo, hi) ==
    IF lo >= hi THEN lo
    ELSE LET mid == (lo + hi + 1) \div 2
         IN  IF mid * mid <= n THEN SqrtBetween(n, mid, hi)
             ELSE SqrtBetween(n, lo, mid - 1)

\* Math.sqrt, rounded down to the fixed-point unit.
Sqrt(n) == SqrtBetween(n, 0, MinOf(n, 46340))

SeqMin(s) == SetMin({s[k] : k \in 1..Len(s)})

SeqMax(s) == CHOOSE x \in {s[k] : k \in 1..Len(s)} : \A k \in 1..Len(s) : s[k] <= x

\* Mutant: the value of the first session in the list stands for all.
MeanIsFirstValue(values) == values[1]

\* values.reduce((a, b) => a + b, 0) / values.length, rounded down to the
\* fixed-point unit.
Mean(values) == SumSeq(values) \div Len(values)

\* Math.sqrt(values.reduce((a, b) => a + Math.pow(b - mean, 2), 0) / n): the
\* population standard deviation.  Computed about the smallest value as
\* sqrt(n * sum(c^2) - sum(c)^2) / n, c = b - min, which is the same number
\* without rounding the mean first; rounded down to the fixed-point unit.
StdDev(values) ==
    LET n == Len(values)
        c == [k \in 1..n |-> values[k] - SeqMin(values)]
        sq == [k \in 1..n |-> c[k] * c[k]]
    IN  Sqrt(n * SumSeq(sq) - SumSeq(c) * SumSeq(c)) \div n

----------------------------------------------------------------------------
(* Configuration                                                           *)

BUCKET_COUNT == 3

\* CONFIG of analyze_lambda_delay.js (the "conservative default").
CONFIG ==
    [MIN_RPM |-> 500, MIN_PW |-> 100, PW_CHANGE_THRESHOLD |-> 50,
     LAMBDA_CHANGE_THRESHOLD |-> 5, MAX_DELAY_MS |-> 200000,
     BUCKET_COUNT |-> BUCKET_COUNT]

\* config of meta_analysis.js (the "recommended" thresholds).
MetaConfig ==
    [MIN_RPM |-> 500, MIN_PW |-> 100, PW_CHANGE_THRESHOLD |-> 20,
     LAMBDA_CHANGE_THRESHOLD |-> 2, MAX_DELAY_MS |-> 200000,
     BUCKET_COUNT |-> BUCKET_COUNT]

\* testConfigs[1] of validate_delays.js ("Loose-Med").
LooseMedConfig ==
    [MIN_RPM |-> 500, MIN_PW |-> 100, PW_CHANGE_THRESHOLD |-> 20,
     LAMBDA_CHANGE_THRESHOLD |-> 5, MAX_DELAY_MS |-> 200000,
     BUCKET_COUNT |-> BUCKET_COUNT]

Configs == {CONFIG, MetaConfig, LooseMedConfig}

----------------------------------------------------------------------------
(* Bucketer: getBucketIndex                                                *)

RECURSIVE BucketScan(_, _, _, _)
BucketScan(cfg, value, boundaries, i) ==
    IF i < cfg.BUCKET_COUNT
    THEN IF value >= At(boundaries, i) /\ value < At(boundaries, i + 1)
         THEN i
         ELSE BucketScan(cfg, value, boundaries, i + 1)
    ELSE \* Handle edge case for maximum value
         IF value = At(boundaries, cfg.BUCKET_COUNT)
         THEN cfg.BUCKET_COUNT - 1
         ELSE 0 - 1

\* Mutant: the edge case for the maximum value is missing.
GetBucketIndexNoMaxCase(cfg, value, boundaries) ==
    LET S == {i \in 0..(cfg.BUCKET_COUNT - 1) :
                value >= At(boundaries, i) /\ value < At(boundaries, i + 1)}
    IN  IF S # {} THEN SetMin(S) ELSE 0 - 1

\* Mutant: intervals open on the left and closed on the right.
GetBucketIndexLeftOpen(cfg, value, boundaries) ==
    LET S == {i \in 0..(cfg.BUCKET_COUNT - 1) :
                value > At(boundaries, i) /\ value <= At(boundaries, i + 1)}
    IN  IF S # {} THEN SetMin(S)
        ELSE IF value = At(boundaries, 0) THEN 0 ELSE 0 - 1

\* Mutant: intervals closed on both sides.
GetBucketIndexClosed(cfg, value, boundaries) ==
    LET S == {i \in 0..(cfg.BUCKET_COUNT - 1) :
                value >= At(boundaries, i) /\ value <= At(boundaries, i + 1)}
    IN  IF S # {} THEN SetMin(S) ELSE 0 - 1

getBucketIndex(cfg, value, boundaries) == BucketScan(cfg, value, boundaries, 0)

----------------------------------------------------------------------------
(* Sorting.  Array.prototype.sort is stable: the element at index m goes   *)
(* to the place given by the number of elements that compare below it plus *)
(* the number of equal elements that stand before it.                      *)

\* The element of arr whose place in the sorted array is k, place(m) being
\* the place of arr[m].
Placed(arr, place, k) == arr[CHOOSE m \in 1..Len(arr) : place[m] = k]

\* data.sort((a, b) => a.time - b.time)
SortByTime(arr) ==
    LET place == [m \in 1..Len(arr) |->
                    1 + Cardinality({q \in 1..Len(arr) :
                                       \/ arr[q].time < arr[m].time
                                       \/ arr[q].time = arr[m].time /\ q < m})]
    IN  [k \in 1..Len(arr) |-> Placed(arr, place, k)]

\* arr.sort((a, b) => a - b)
SortNum(arr) ==
    LET place == [m \in 1..Len(arr) |->
                    1 + Cardinality({q \in 1..Len(arr) :
                                       \/ arr[q] < arr[m]
                                       \/ arr[q] = arr[m] /\ q < m})]
    IN  [k \in 1..Len(arr) |-> Placed(arr, place, k)]

----------------------------------------------------------------------------
(* LambdaDelayAnalyzer: parseFile, calculateBucketBoundaries,              *)
(* assignToBuckets                                                         *)

\* The filter of parseFile; rows are the numeric rows of the log.
RowIsValid(cfg, row) == ~(row.rpm < cfg.MIN_RPM \/ row.pw < cfg.MIN_PW)

parseFile(cfg, rows) == SelectSeq(rows, LAMBDA row : RowIsValid(cfg, row))

\* Mutant: quartiles in place of terciles.
PercentileOfFour(arr, num) == At(arr, (Len(arr) * num) \div 4)

\* percentile(arr, p) for p = num/3: arr[Math.floor(arr.length * p)]
percentile(arr, num) == At(arr, (Len(arr) * num) \div 3)

\* An empty array has no element 0: its boundaries are undefined (NULL).
BoundariesOf(values) ==
    LET sorted == SortNum(values)
    IN  IF sorted = <<>> THEN <<NULL, NULL, NULL, NULL>>
        ELSE <<At(sorted, 0), percentile(sorted, 1), percentile(sorted, 2),
               At(sorted, Len(sorted) - 1)>>

RpmsOf(d) == [k \in 1..Len(d) |-> d[k].rpm]

LoadsOf(d) == [k \in 1..Len(d) |-> d[k].load]

\* The loop over this.data: every point whose two bucket indices are not -1
\* is pushed onto the list of its bucket, so each list grows by the points
\* of its bucket in store order.
assignToBuckets(cfg, d, rpmB, loadB, bs) ==
    [i \in 0..(cfg.BUCKET_COUNT - 1) |->
        [j \in 0..(cfg.BUCKET_COUNT - 1) |->
            [bs[i][j] EXCEPT
                !.data = @ \o SelectSeq(d, LAMBDA point :
                                 /\ getBucketIndex(cfg, point.rpm, rpmB) = i
                                 /\ getBucketIndex(cfg, point.load, loadB) = j)]]]

----------------------------------------------------------------------------
(* Delay Detector: calculateDelays, findDelaysInSequence                   *)

LOOKAHEAD == 100

MIN_BUCKET_POINTS == 10

\* Mutant: the strongest response in the window wins, not the first.
LookAheadBest(cfg, d, i, expectedLambdaDirection, j) ==
    LET hits == {k \in j..(MinOf(i + LOOKAHEAD, Len(d)) - 1) :
                   /\ Sign(At(d, k).lambda - At(d, i).lambda)
                        = expectedLambdaDirection
                   /\ Abs(At(d, k).lambda - At(d, i).lambda)
                        >= cfg.LAMBDA_CHANGE_THRESHOLD
                   /\ (At(d, k).time - At(d, i).time) * 1000
                        <= cfg.MAX_DELAY_MS}
        best == CHOOSE k \in hits :
                   \A m \in hits :
                      \/ Abs(At(d, k).lambda - At(d, i).lambda)
                           > Abs(At(d, m).lambda - At(d, i).lambda)
                      \/ /\ Abs(At(d, k).lambda - At(d, i).lambda)
                              = Abs(At(d, m).lambda - At(d, i).lambda)
                         /\ k <= m
    IN  IF hits = {} THEN <<>>
        ELSE <<(At(d, best).time - At(d, i).time) * 1000>>

\* Mutant: the loop runs up to and including index i + 100.
RECURSIVE LookAheadInclusive(_, _, _, _, _)
LookAheadInclusive(cfg, d, i, expectedLambdaDirection, j) ==
    IF j <= MinOf(i + LOOKAHEAD, Len(d) - 1)
    THEN LET curr == At(d, i)
             future == At(d, j)
             lambdaChange == future.lambda - curr.lambda
             timeDiff == (future.time - curr.time) * 1000
         IN  IF /\ Sign(lambdaChange) = expectedLambdaDirection
                /\ Abs(lambdaChange) >= cfg.LAMBDA_CHANGE_THRESHOLD
                /\ timeDiff <= cfg.MAX_DELAY_MS
             THEN <<timeDiff>>
             ELSE LookAheadInclusive(cfg, d, i, expectedLambdaDirection, j + 1)
    ELSE <<>>

\* The inner loop from index j on: the delay of the first qualifying future
\* sample as a one-element list, or the empty list.
RECURSIVE LookAhead(_, _, _, _, _)
LookAhead(cfg, d, i, expectedLambdaDirection, j) ==
    IF j < MinOf(i + LOOKAHEAD, Len(d))
    THEN LET curr == At(d, i)
             future == At(d, j)
             lambdaChange == future.lambda - curr.lambda
             timeDiff == (future.time - curr.time) * 1000
         IN  IF /\ Sign(lambdaChange) = expectedLambdaDirection
                /\ Abs(lambdaChange) >= cfg.LAMBDA_CHANGE_THRESHOLD
                /\ timeDiff <= cfg.MAX_DELAY_MS
             THEN <<timeDiff>>
             ELSE LookAhead(cfg, d, i, expectedLambdaDirection, j + 1)
    ELSE <<>>

\* One iteration of the outer loop: what index i pushes to delays.
Pushed(cfg, d, i) ==
    LET prev == At(d, i - 1)
        curr == At(d, i)
        pwChange == curr.pw - prev.pw
        expectedLambdaDirection == 0 - Sign(pwChange)
    IN  IF Abs(pwChange) < cfg.PW_CHANGE_THRESHOLD
        THEN <<>>
        ELSE LookAhead(cfg, d, i, expectedLambdaDirection, i + 1)

\* The outer loop, for (let i = 1; i < data.length - 1; i++): delays holds
\* what the iterations pushed, in index order.
Scan(cfg, d) ==
    LET pushed == [i \in 1..(Len(d) - 2) |-> Pushed(cfg, d, i)]
        pushing == {i \in 1..(Len(d) - 2) : pushed[i] # <<>>}
    IN  [k \in 1..Cardinality(pushing) |->
            pushed[CHOOSE i \in pushing :
                      Cardinality({m \in pushing : m < i}) = k - 1][1]]

\* The bucket after findDelaysInSequence(bucket.data): data is sorted in
\* place and the measurements are returned.
findDelaysInSequence(cfg, d) ==
    LET sorted == SortByTime(d)
    IN  [data |-> sorted, delays |-> Scan(cfg, sorted)]

\* Mutant: detection runs on every bucket, however few samples it holds.
calculateDelaysEveryBucket(cfg, bs) ==
    [i \in 0..(cfg.BUCKET_COUNT - 1) |->
        [j \in 0..(cfg.BUCKET_COUNT - 1) |->
            findDelaysInSequence(cfg, bs[i][j].data)]]

calculateDelays(cfg, bs) ==
    [i \in 0..(cfg.BUCKET_COUNT - 1) |->
        [j \in 0..(cfg.BUCKET_COUNT - 1) |->
            IF Len(bs[i][j].data) < MIN_BUCKET_POINTS
            THEN bs[i][j]
            ELSE findDelaysInSequence(cfg, bs[i][j].data)]]

----------------------------------------------------------------------------
(* Aggregator and Table Builder: median, generateTable, and the delay      *)
(* table extracted by the multi-session scripts                            *)

\* Mutant: the input is not sorted.
MedianUnsorted(arr) ==
    IF Len(arr) = 0 THEN NULL
    ELSE LET mid == Len(arr) \div 2
         IN  IF Len(arr) % 2 = 0
             THEN Some((At(arr, mid - 1) + At(arr, mid)) \div 2)
             ELSE Some(At(arr, mid))

\* (a + b) / 2 is exact wherever the two central elements have an even sum;
\* otherwise the fixed point drops the half unit.
median(arr) ==
    IF Len(arr) = 0 THEN NULL
    ELSE LET sorted == SortNum(arr)
             mid == Len(sorted) \div 2
         IN  IF Len(sorted) % 2 = 0
             THEN Some((At(sorted, mid - 1) + At(sorted, mid)) \div 2)
             ELSE Some(At(sorted, mid))

\* Math.round(x * 10) / 10 on a non-negative value carried as x * 100:
\* to the nearest tenth, halves up.
Round1(x) == ((x + 5) \div 10) * 10

\* Math.round((a + b) / 2) on plain integers: halves up.
RoundMid(a, b) == (a + b + 1) \div 2

\* Mutant: an absent median becomes the number 0.
RoundedDelayNullAsZero(delay) ==
    IF delay # NULL THEN Some(Round1(Val(delay))) ELSE Some(0)

\* delay !== null ? Math.round(delay * 10) / 10 : null
RoundedDelay(delay) == IF delay # NULL THEN Some(Round1(Val(delay))) ELSE NULL

\* The table returned by generateTable: one row per RPM bucket.
generateTable(cfg, bs, rpmB, loadB) ==
    LET rpmValues == [k \in 1..cfg.BUCKET_COUNT |->
                        RoundMid(At(rpmB, k - 1), At(rpmB, k))]
        loadValues == [k \in 1..cfg.BUCKET_COUNT |->
                        RoundMid(At(loadB, k - 1), At(loadB, k))]
    IN  [k \in 1..cfg.BUCKET_COUNT |->
            [rpm |-> rpmValues[k],
             load |-> loadValues,
             delays |-> [l \in 1..cfg.BUCKET_COUNT |->
                           RoundedDelay(median(bs[k - 1][l - 1].delays))]]]

\* delayTable[i][j] = {median, count} of meta_analysis.js and of the workers.
ExtractedTable(bs) ==
    [i \in 0..(BUCKET_COUNT - 1) |->
        [j \in 0..(BUCKET_COUNT - 1) |->
            LET delays == bs[i][j].delays
                med == IF Len(delays) > 0 THEN median(delays) ELSE NULL
            IN  [median |-> RoundedDelay(med), count |-> Len(delays)]]]

\* metadata.config of exportResults: the module constant CONFIG, whatever
\* this.config is.
ExportedConfig(cfg) == CONFIG

\* One entry of detailedBuckets.
DetailedBucket(bs, i, j) ==
    LET delays == bs[i][j].delays
    IN  [rpmBucket |-> i,
         loadBucket |-> j,
         dataPoints |-> Len(bs[i][j].data),
         delayMeasurements |-> Len(delays),
         medianDelay |-> RoundedDelay(median(delays)),
         minDelay |-> RoundedDelay(IF Len(delays) > 0
                                   THEN Some(SeqMin(delays)) ELSE NULL),
         maxDelay |-> RoundedDelay(IF Len(delays) > 0
                                   THEN Some(SeqMax(delays)) ELSE NULL)]

\* The object exportResults(table) writes to lambda_delay_table.json
\* (generatedAt left out).
exportResults(cfg, d, bs, rpmB, loadB, tbl) ==
    [metadata |-> [totalDataPoints |-> Len(d), config |-> ExportedConfig(cfg)],
     rpmAxis |-> [k \in 1..cfg.BUCKET_COUNT |-> tbl[k].rpm],
     loadAxis |-> tbl[1].load,
     boundaries |-> [rpm |-> rpmB, load |-> loadB],
     delayTable |-> tbl,
     detailedBuckets |->
        [k \in 1..(cfg.BUCKET_COUNT * cfg.BUCKET_COUNT) |->
            DetailedBucket(bs, (k - 1) \div cfg.BUCKET_COUNT,
                           (k - 1) % cfg.BUCKET_COUNT)]]

----------------------------------------------------------------------------
(* Cross-Session Aggregator: bucketStats and masterTable of                *)
(* meta_analysis.js (the parallel script computes them the same way)       *)

\* The non-null medians of bucket [i][j], in the order of allResults.
RECURSIVE CollectMedians(_, _, _)
CollectMedians(sessionResults, i, j) ==
    IF sessionResults = <<>> THEN <<>>
    ELSE LET med == Head(sessionResults).delayTable[i][j].median
         IN  (IF med # NULL THEN <<Val(med)>> ELSE <<>>)
                \o CollectMedians(Tail(sessionResults), i, j)

\* Mutant: one contributing session is enough.
HasEnoughSessionsFromOne(values) == Len(values) > 0

\* values.length > 1
HasEnoughSessions(values) == Len(values) > 1

\* (stdDev / mean) * 100, in percent; 0 / 0 is NaN.
CoefficientOfVariation(stdDev, mean) ==
    IF mean = 0 THEN "NaN" ELSE (stdDev * 100 * 100) \div mean

BucketStatsEntry(i, j, values) ==
    [rpm |-> i,
     load |-> j,
     filesWithData |-> Len(values),
     values |-> values,
     mean |-> Mean(values),
     stdDev |-> StdDev(values),
     cv |-> CoefficientOfVariation(StdDev(values), Mean(values)),
     min |-> SeqMin(values),
     max |-> SeqMax(values),
     range |-> SeqMax(values) - SeqMin(values)]

\* bucketStats: an entry for bucketKey [i,j] only where values.length > 1.
BucketStatsOf(sessionResults) ==
    [c \in {c \in (0..(BUCKET_COUNT - 1)) \X (0..(BUCKET_COUNT - 1)) :
               HasEnoughSessions(CollectMedians(sessionResults, c[1], c[2]))} |->
        BucketStatsEntry(c[1], c[2], CollectMedians(sessionResults, c[1], c[2]))]

MasterTableOf(stats) ==
    [i \in 0..(BUCKET_COUNT - 1) |->
        [j \in 0..(BUCKET_COUNT - 1) |->
            IF <<i, j>> \in DOMAIN stats
            THEN Some(Round1(stats[<<i, j>>].mean))
            ELSE NULL]]

----------------------------------------------------------------------------
(* Validator: calculateLambdaErrors of meta_analysis.js                    *)

MIN_LAMBDAS == 10

\* targetTime = point.time - (estimatedDelay / 1000), multiplied by 1000.
TargetTimeMs(point, estimatedDelay) == point.time * 1000 - estimatedDelay

\* Math.abs(analyzer.data[i].time - targetTime), multiplied by 1000.
TimeDiffToTarget(sample, targetMs) == Abs(sample.time * 1000 - targetMs)

\* The linear scan from index i on.  closestIdx = -1 stands for
\* minTimeDiff = Infinity, which every time difference is below.
RECURSIVE ClosestFrom(_, _, _, _, _)
ClosestFrom(d, targetMs, i, closestIdx, minTimeDiff) ==
    IF i < Len(d)
    THEN LET timeDiff == TimeDiffToTarget(At(d, i), targetMs)
         IN  IF closestIdx = 0 - 1 \/ timeDiff < minTimeDiff
             THEN ClosestFrom(d, targetMs, i + 1, i, timeDiff)
             ELSE ClosestFrom(d, targetMs, i + 1, closestIdx, minTimeDiff)
    ELSE [closestIdx |-> closestIdx, minTimeDiff |-> minTimeDiff]

\* Mutant: a nearest point exactly 500 ms away is accepted.
IsCloseEnoughInclusive(closest) ==
    closest.closestIdx # 0 - 1 /\ closest.minTimeDiff <= 50000

\* Mutant: the tolerance is 100 ms.
IsCloseEnoughWithinTenth(closest) ==
    closest.closestIdx # 0 - 1 /\ closest.minTimeDiff < 10000

\* closestIdx !== -1 && minTimeDiff < 0.5, the difference multiplied by 1000.
IsCloseEnough(closest) ==
    closest.closestIdx # 0 - 1 /\ closest.minTimeDiff < 50000

\* bucketErrors[bucketKey].push(lambda), creating the list on first use; the
\* object is the list of its entries in insertion order.
PushLambda(bucketErrors, bucketKey, lambda) ==
    IF \E n \in 1..Len(bucketErrors) : bucketErrors[n].key = bucketKey
    THEN [n \in 1..Len(bucketErrors) |->
            IF bucketErrors[n].key = bucketKey
            THEN [bucketErrors[n] EXCEPT !.lambdas = Append(@, lambda)]
            ELSE bucketErrors[n]]
    ELSE Append(bucketErrors, [key |-> bucketKey, lambdas |-> <<lambda>>])

\* The loop over analyzer.data from index idx on.
RECURSIVE CollectLambdas(_, _, _, _, _, _, _)
CollectLambdas(cfg, d, rpmB, loadB, tbl, idx, bucketErrors) ==
    IF idx < Len(d)
    THEN LET point == At(d, idx)
             rpmBucket == getBucketIndex(cfg, point.rpm, rpmB)
             loadBucket == getBucketIndex(cfg, point.load, loadB)
         IN  IF rpmBucket = 0 - 1 \/ loadBucket = 0 - 1
             THEN CollectLambdas(cfg, d, rpmB, loadB, tbl, idx + 1, bucketErrors)
             ELSE IF tbl[rpmBucket][loadBucket] = NULL
             THEN CollectLambdas(cfg, d, rpmB, loadB, tbl, idx + 1, bucketErrors)
             ELSE LET targetMs ==
                          TargetTimeMs(point, Val(tbl[rpmBucket][loadBucket]))
                      closest == ClosestFrom(d, targetMs, 0, 0 - 1, 0)
                  IN  IF IsCloseEnough(closest)
                      THEN CollectLambdas(cfg, d, rpmB, loadB, tbl, idx + 1,
                             PushLambda(bucketErrors, <<rpmBucket, loadBucket>>,
                                        point.lambda))
                      ELSE CollectLambdas(cfg, d, rpmB, loadB, tbl, idx + 1,
                                          bucketErrors)
    ELSE bucketErrors

\* Mutant: a bucket below the threshold counts, with whatever it holds.
IsSkippedNever(lambdas) == FALSE

\* Mutant: only an empty list is skipped.
IsSkippedOnlyWhenEmpty(lambdas) == Len(lambdas) < 1

\* if (lambdas.length < 10) continue;
IsSkipped(lambdas) == Len(lambdas) < MIN_LAMBDAS

RECURSIVE StdDevsOf(_)
StdDevsOf(bucketErrors) ==
    IF bucketErrors = <<>> THEN <<>>
    ELSE IF IsSkipped(Head(bucketErrors).lambdas)
         THEN StdDevsOf(Tail(bucketErrors))
         ELSE <<StdDev(Head(bucketErrors).lambdas)>>
                 \o StdDevsOf(Tail(bucketErrors))

calculateLambdaErrors(cfg, d, rpmB, loadB, tbl) ==
    LET bucketErrors == CollectLambdas(cfg, d, rpmB, loadB, tbl, 0, <<>>)
        stdDevs == StdDevsOf(bucketErrors)
    IN  [bucketErrors |-> bucketErrors,
         avgStdDev |-> IF Len(stdDevs) > 0
                       THEN SumSeq(stdDevs) \div Len(stdDevs)
                       ELSE 0,
         bucketsAnalyzed |-> Len(stdDevs)]

----------------------------------------------------------------------------
(* Validator of the parallel script: findClosestIndex                      *)

\* The index the linear scan of meta_analysis.js accepts for a target, -1
\* when it accepts none.
LinearClosestIndex(d, targetMs) ==
    LET closest == ClosestFrom(d, targetMs, 0, 0 - 1, 0)
    IN  IF IsCloseEnough(closest) THEN closest.closestIdx ELSE 0 - 1

\* The while loop of findClosestIndex.  minDiff = NULL stands for Infinity.
RECURSIVE BinarySearch(_, _, _, _, _, _)
BinarySearch(times, targetMs, left, right, closest, minDiff) ==
    IF left <= right
    THEN LET mid == (left + right) \div 2
             diff == Abs(At(times, mid) * 1000 - targetMs)
             isCloser == IF minDiff = NULL THEN TRUE ELSE diff < Val(minDiff)
             newClosest == IF isCloser THEN mid ELSE closest
             newMinDiff == IF isCloser THEN Some(diff) ELSE minDiff
         IN  IF At(times, mid) * 1000 < targetMs
             THEN BinarySearch(times, targetMs, mid + 1, right, newClosest,
                               newMinDiff)
             ELSE IF At(times, mid) * 1000 > targetMs
             THEN BinarySearch(times, targetMs, left, mid - 1, newClosest,
                               newMinDiff)
             ELSE mid
    ELSE IF minDiff # NULL /\ Val(minDiff) < 50000 THEN closest ELSE 0 - 1

\* times = analyzer.data.map(d => d.time)
TimesOf(d) == [k \in 1..Len(d) |-> d[k].time]

\* Mutant: only a sample exactly at the target time is found.
FindClosestIndexExactOnly(times, targetMs) ==
    IF \E k \in 1..Len(times) : times[k] * 1000 = targetMs
    THEN (CHOOSE k \in 1..Len(times) : times[k] * 1000 = targetMs) - 1
    ELSE 0 - 1

findClosestIndex(times, targetMs) ==
    BinarySearch(times, targetMs, 0, Len(times) - 1, 0, NULL)

----------------------------------------------------------------------------
(* Parallel script: the worker pools and the code-ready table              *)

workerFile == ".worker_temp.js"

crossValWorkerFile == ".crossval_worker_temp.js"

\* Mutant: every item gets a worker at once.
InitialWorkersUnbounded(cpus, count) == count

\* Math.min(numCPUs, logFiles.length)
InitialWorkers(cpus, count) == MinOf(cpus, count)

\* The workers after the initial batch of startWorker() calls.
InitialBatch(cpus, count) ==
    [w \in 1..InitialWorkers(cpus, count) |-> "running"]

\* workers after worker w has posted its message and, when the pool goes
\* on and an item is left, startWorker() has started the next one.
AfterMessage(ws, w, finished, index, count) ==
    LET reported == [ws EXCEPT ![w] = "reported"]
    IN  IF ~finished /\ index < count
        THEN Append(reported, "running")
        ELSE reported

\* Mutant: startWorker does not advance fileIndex.
IndexAfterMessageStuck(finished, index, count) == index

\* fileIndex after the same.
IndexAfterMessage(finished, index, count) ==
    IF ~finished /\ index < count THEN index + 1 ELSE index

\* Math.round(x) of a non-negative number carried as x * 100, as a plain
\* integer.
Round0(x) == (x + 50) \div 100

\* The rows printed as defaultLambdaDelayTable:
\* masterTable[i][j] !== null ? Math.round(masterTable[i][j]) : 0
CodeFormatOf(mt) ==
    [i \in 0..(BUCKET_COUNT - 1) |->
        [j \in 0..(BUCKET_COUNT - 1) |->
            IF mt[i][j] # NULL THEN Round0(Val(mt[i][j])) ELSE 0]]

----------------------------------------------------------------------------
(* States of the parts a specification does not use                        *)

EmptyBuckets ==
    [i \in 0..(BUCKET_COUNT - 1) |->
        [j \in 0..(BUCKET_COUNT - 1) |-> [data |-> <<>>, delays |-> <<>>]]]

FnIdle == input = NotRun /\ output = NotRun

AnalyzerIdle ==
    /\ config = CONFIG
    /\ data = <<>>
    /\ rpmBoundaries = NULL
    /\ loadBoundaries = NULL
    /\ buckets = EmptyBuckets
    /\ table = NULL

ValidatorIdle == delayTable = NULL /\ errors = NotRun

MetaIdle ==
    /\ allResults = <<>>
    /\ failed = <<>>
    /\ bucketStats = NotRun
    /\ masterTable = NULL

PoolIdle ==
    /\ numCPUs = 1
    /\ fileIndex = 0
    /\ completed = 0
    /\ activeWorkers = 0
    /\ workers = <<>>
    /\ results = <<>>
    /\ promise = [analysis |-> "none", crossValidation |-> "none"]
    /\ tempFiles = {}

\* A readable log with the required columns, the terminal untouched, nothing
\* exported and the process running.
IoIdle ==
    /\ columnsFound = TRUE
    /\ consoleLog = "original"
    /\ printed = <<>>
    /\ exported = NULL
    /\ exitCode = NULL

----------------------------------------------------------------------------
(* Specification SpecBucket: getBucketIndex applied to one value and one   *)
(* non-decreasing boundary array.                                          *)

MaxVal == 4

IsNonDecreasing(s) == \A k \in 1..(Len(s) - 1) : s[k] <= s[k + 1]

BoundaryArrays ==
    {b \in [1..(BUCKET_COUNT + 1) -> 1..MaxVal] : IsNonDecreasing(b)}

InitBucket ==
    /\ input \in [value : 0..(MaxVal + 1), boundaries : BoundaryArrays]
    /\ output = NotRun
    /\ phase = "call"
    /\ AnalyzerIdle /\ ValidatorIdle /\ MetaIdle
    /\ PoolIdle /\ IoIdle

CallGetBucketIndex ==
    /\ phase = "call"
    /\ output' = getBucketIndex(config, input.value, input.boundaries)
    /\ phase' = "returned"
    /\ UNCHANGED <<input, analyzerVars, validatorVars, metaVars,
                   poolVars, ioVars>>

NextBucket == CallGetBucketIndex

SpecBucket == InitBucket /\ [][NextBucket]_vars

BucketReturned == phase = "returned"

\* Indices whose half-open interval holds the value.
HalfOpenHits(v, b) ==
    {i \in 0..(BUCKET_COUNT - 1) : At(b, i) <= v /\ v < At(b, i + 1)}

\* Indices whose interval holds the value, the last interval being closed.
IntervalHits(v, b) ==
    {i \in 0..(BUCKET_COUNT - 1) :
        /\ At(b, i) <= v
        /\ IF i = BUCKET_COUNT - 1 THEN v <= At(b, i + 1) ELSE v < At(b, i + 1)}

\* C1: getBucketIndex returns the first i with boundaries[i] <= value <
\* boundaries[i+1]; failing that, BUCKET_COUNT-1 when value equals the final
\* boundary; otherwise -1.
C1_BucketIndexContract ==
    BucketReturned =>
        LET v == input.value
            b == input.boundaries
        IN  IF HalfOpenHits(v, b) # {}
            THEN output = SetMin(HalfOpenHits(v, b))
            ELSE IF v = At(b, BUCKET_COUNT)
                 THEN output = BUCKET_COUNT - 1
                 ELSE output = 0 - 1

\* The maximum-value edge case has been taken.
C1_Witness ==
    /\ BucketReturned
    /\ HalfOpenHits(input.value, input.boundaries) = {}
    /\ input.value = At(input.boundaries, BUCKET_COUNT)
    /\ output = BUCKET_COUNT - 1

\* C2: for non-decreasing boundaries getBucketIndex never returns -1 inside
\* [boundaries[0], boundaries[last]], always returns -1 outside, and inside
\* the range exactly one index satisfies the interval rule (the one returned).
C2_BucketIndexTotal ==
    (BucketReturned /\ IsNonDecreasing(input.boundaries)) =>
        LET v == input.value
            b == input.boundaries
            inside == At(b, 0) <= v /\ v <= At(b, BUCKET_COUNT)
        IN  /\ inside => output # 0 - 1
            /\ ~inside => output = 0 - 1
            /\ inside => /\ Cardinality(IntervalHits(v, b)) = 1
                         /\ output \in IntervalHits(v, b)

\* A value strictly inside the range was indexed and a value outside was not.
C2_Witness ==
    /\ BucketReturned
    /\ At(input.boundaries, 0) < At(input.boundaries, 1)
    /\ At(input.boundaries, 1) < input.value
    /\ input.value < At(input.boundaries, BUCKET_COUNT)
    /\ output \in 1..(BUCKET_COUNT - 1)

\* C3 as stated: a value equal to an interior boundary boundaries[i+1]
\* (i+1 < BUCKET_COUNT) is assigned to the lower bucket i.
C3_TieGoesToLowerBucket ==
    BucketReturned =>
        \A i \in 0..(BUCKET_COUNT - 2) :
            input.value = At(input.boundaries, i + 1) => output = i

\* C3 amended: a value equal to an interior boundary boundaries[i+1] is never
\* assigned to the lower bucket i but to a bucket above it, to i+1 itself when
\* boundaries[i+1] < boundaries[i+2]; a value equal to the final boundary is
\* assigned to the last bucket.
C3_TieGoesToUpperBucket ==
    BucketReturned =>
        LET v == input.value
            b == input.boundaries
        IN  /\ \A i \in 0..(BUCKET_COUNT - 2) :
                 v = At(b, i + 1) =>
                    /\ output > i
                    /\ At(b, i + 1) < At(b, i + 2) => output = i + 1
            /\ v = At(b, BUCKET_COUNT) => output = BUCKET_COUNT - 1

\* A tie with the first interior boundary of strictly increasing boundaries
\* went to bucket 1.
C3_Witness ==
    /\ BucketReturned
    /\ \A k \in 1..BUCKET_COUNT : input.boundaries[k] < input.boundaries[k + 1]
    /\ input.value = At(input.boundaries, 1)
    /\ output = 1

----------------------------------------------------------------------------
(* Specification SpecAnalyze: one session, from the log rows to its delay  *)
(* table, in the order every script calls the analyzer: parseFile,         *)
(* calculateBucketBoundaries, assignToBuckets, calculateDelays, then       *)
(* generateTable (single-file analysis) or the table extraction of the     *)
(* multi-session scripts.                                                  *)
(*                                                                         *)
(* The log holds an optional run of RunLen equal rows at time 0 followed   *)
(* by three free rows, all at one RPM and load; the free rows need not be  *)
(* in time order.                                                          *)

RunLen == 7

Times == {0, 100, 300}

Pulsewidths == {100, 130}

Lambdas == {95, 98, 100}

Rows ==
    {[time |-> t, rpm |-> 3000, pw |-> p, lambda |-> l, load |-> 50] :
        t \in Times, p \in Pulsewidths, l \in Lambdas}

RunRows == {r \in Rows : r.time = 0 /\ r.lambda = 100}

RunOf(row) == [k \in 1..RunLen |-> row]

Logs ==
    {<<a, b, c>> : a \in Rows, b \in Rows, c \in Rows}
        \cup {RunOf(r) \o <<a, b, c>> :
                r \in RunRows, a \in Rows, b \in Rows, c \in Rows}

InitAnalyze ==
    /\ input \in Logs
    /\ output = NotRun
    /\ config \in Configs
    /\ data = <<>>
    /\ rpmBoundaries = NULL
    /\ loadBoundaries = NULL
    /\ buckets = EmptyBuckets
    /\ table = NULL
    /\ phase = "parseFile"
    /\ ValidatorIdle /\ MetaIdle
    /\ PoolIdle /\ IoIdle

\* parseFile throws 'Required columns not found in file' before it reads a
\* row when a required column is missing from the header line.
ParseFile ==
    /\ phase = "parseFile"
    /\ data' = IF columnsFound THEN parseFile(config, input) ELSE data
    /\ phase' = IF columnsFound THEN "calculateBucketBoundaries" ELSE "threw"
    /\ UNCHANGED <<fnVars, config, rpmBoundaries, loadBoundaries, buckets,
                   table, validatorVars, metaVars,
                   poolVars, ioVars>>

\* On an empty store rpms[0] is undefined and the boundary report line
\* (undefined.toFixed) throws a TypeError.
CalculateBucketBoundaries ==
    /\ phase = "calculateBucketBoundaries"
    /\ rpmBoundaries' = BoundariesOf(RpmsOf(data))
    /\ loadBoundaries' = BoundariesOf(LoadsOf(data))
    /\ phase' = IF data = <<>> THEN "threw" ELSE "assignToBuckets"
    /\ UNCHANGED <<fnVars, config, data, buckets, table, validatorVars,
                   metaVars,
                   poolVars, ioVars>>

AssignToBuckets ==
    /\ phase = "assignToBuckets"
    /\ buckets' = assignToBuckets(config, data, rpmBoundaries, loadBoundaries,
                                  buckets)
    /\ phase' = "bucketed"
    /\ UNCHANGED <<fnVars, config, data, rpmBoundaries, loadBoundaries, table,
                   validatorVars, metaVars,
                   poolVars, ioVars>>

\* Mutant: findDelaysInSequence also sorts the Sample Store.
CalculateDelaysSortingStore ==
    /\ phase = "bucketed"
    /\ buckets' = calculateDelays(config, buckets)
    /\ data' = SortByTime(data)
    /\ phase' = "report"
    /\ UNCHANGED <<fnVars, config, rpmBoundaries, loadBoundaries, table,
                   validatorVars, metaVars,
                   poolVars, ioVars>>

CalculateDelays ==
    /\ phase = "bucketed"
    /\ buckets' = calculateDelays(config, buckets)
    /\ phase' = "report"
    /\ UNCHANGED <<fnVars, config, data, rpmBoundaries, loadBoundaries, table,
                   validatorVars, metaVars,
                   poolVars, ioVars>>

GenerateTable ==
    /\ phase = "report"
    /\ table = NULL
    /\ table' = generateTable(config, buckets, rpmBoundaries, loadBoundaries)
    /\ UNCHANGED <<fnVars, config, data, rpmBoundaries, loadBoundaries,
                   buckets, phase, validatorVars, metaVars,
                   poolVars, ioVars>>

TotalMeasurements(bs) ==
    SumSeq([k \in 1..(BUCKET_COUNT * BUCKET_COUNT) |->
              Len(bs[(k - 1) \div BUCKET_COUNT][(k - 1) % BUCKET_COUNT].delays)])

BucketsWithData(bs) ==
    Cardinality({c \in (0..(BUCKET_COUNT - 1)) \X (0..(BUCKET_COUNT - 1)) :
                   Len(bs[c[1]][c[2]].delays) > 0})

\* The record meta_analysis.js pushes to allResults after a successful
\* analysis (the workers post the same record).
SessionResult(file, d, bs, rpmB, loadB) ==
    [file |-> file,
     dataPoints |-> Len(d),
     totalMeasurements |-> TotalMeasurements(bs),
     bucketsWithData |-> BucketsWithData(bs),
     rpmBoundaries |-> rpmB,
     loadBoundaries |-> loadB,
     delayTable |-> ExtractedTable(bs)]

PushResult ==
    /\ phase = "report"
    /\ allResults = <<>>
    /\ allResults' = Append(allResults,
                        SessionResult(1, data, buckets, rpmBoundaries,
                                      loadBoundaries))
    /\ UNCHANGED <<fnVars, analyzerVars, phase, validatorVars, failed,
                   bucketStats, masterTable,
                   poolVars, ioVars>>

NextAnalyze ==
    \/ ParseFile
    \/ CalculateBucketBoundaries
    \/ AssignToBuckets
    \/ CalculateDelays
    \/ GenerateTable
    \/ PushResult

SpecAnalyze == InitAnalyze /\ [][NextAnalyze]_vars

Cells == (0..(BUCKET_COUNT - 1)) \X (0..(BUCKET_COUNT - 1))

DelaysCalculated == phase = "report"

\* (time[j] - time[i]) * 1000
TimeDiffMs(d, i, j) == (At(d, j).time - At(d, i).time) * 1000

IsPwEvent(cfg, d, i) ==
    Abs(At(d, i).pw - At(d, i - 1).pw) >= cfg.PW_CHANGE_THRESHOLD

\* The indices of the look-ahead window of i whose sample is a qualifying
\* lambda response to the PW change at i.
Responses(cfg, d, i) ==
    {j \in (i + 1)..(MinOf(i + LOOKAHEAD, Len(d)) - 1) :
        /\ Sign(At(d, j).lambda - At(d, i).lambda)
             = 0 - Sign(At(d, i).pw - At(d, i - 1).pw)
        /\ Abs(At(d, j).lambda - At(d, i).lambda) >= cfg.LAMBDA_CHANGE_THRESHOLD
        /\ TimeDiffMs(d, i, j) <= cfg.MAX_DELAY_MS}

MeasurementAt(cfg, d, i) ==
    IF IsPwEvent(cfg, d, i) /\ Responses(cfg, d, i) # {}
    THEN <<TimeDiffMs(d, i, SetMin(Responses(cfg, d, i)))>>
    ELSE <<>>

RECURSIVE MeasurementsFrom(_, _, _)
MeasurementsFrom(cfg, d, i) ==
    IF i > Len(d) - 2 THEN <<>>
    ELSE MeasurementAt(cfg, d, i) \o MeasurementsFrom(cfg, d, i + 1)

\* C4: findDelaysInSequence never emits a measurement with timeDiffMs >
\* MAX_DELAY_MS or with timeDiffMs <= 0, equal timestamps included.
C4_DelaysPositiveAndBounded ==
    \A c \in Cells :
        \A k \in 1..Len(buckets[c[1]][c[2]].delays) :
            /\ buckets[c[1]][c[2]].delays[k] <= config.MAX_DELAY_MS
            /\ buckets[c[1]][c[2]].delays[k] > 0

\* C5: for each index i in 1..n-2 with a PW change of at least
\* PW_CHANGE_THRESHOLD, findDelaysInSequence emits at most one measurement:
\* one iff the look-ahead window of i holds a qualifying response, and then
\* the time difference of the smallest such j; no other index emits, so the
\* output is the concatenation of these in index order and has at most n-2
\* entries.
C5_FirstMatchPerEvent ==
    DelaysCalculated =>
        \A c \in Cells :
            LET b == buckets[c[1]][c[2]]
            IN  Len(b.data) >= MIN_BUCKET_POINTS =>
                    /\ b.delays = MeasurementsFrom(config, b.data, 1)
                    /\ Len(b.delays) <= Len(b.data) - 2

\* An event whose first qualifying response is not the next sample produced
\* exactly one measurement, the time difference to that first response.
C5_Witness ==
    /\ DelaysCalculated
    /\ \E c \in Cells :
        LET b == buckets[c[1]][c[2]]
        IN  /\ Len(b.data) >= MIN_BUCKET_POINTS
            /\ Len(b.delays) = 1
            /\ \E i \in 1..(Len(b.data) - 2) :
                 /\ IsPwEvent(config, b.data, i)
                 /\ Responses(config, b.data, i) # {}
                 /\ SetMin(Responses(config, b.data, i)) > i + 1
                 /\ b.delays[1] = TimeDiffMs(b.data, i,
                                     SetMin(Responses(config, b.data, i)))
                 /\ b.delays[1] > 0

\* C24: calculateDelays runs detection only on buckets of at least 10
\* samples: after it a bucket with fewer than 10 samples has an empty
\* measurement list and its sample list as assignToBuckets left it, whatever
\* PW/lambda events its samples contain, and the call returns normally; a
\* bucket with 10 or more samples has the measurements of its events.
C24_SmallBucketsSkipped ==
    /\ phase # "threw"
    /\ DelaysCalculated =>
          \A c \in Cells :
              LET b == buckets[c[1]][c[2]]
              IN  /\ Len(b.data) < MIN_BUCKET_POINTS =>
                        /\ b.delays = <<>>
                        /\ b.data = assignToBuckets(config, data, rpmBoundaries,
                                       loadBoundaries, EmptyBuckets)[c[1]][c[2]].data
                  /\ Len(b.data) >= MIN_BUCKET_POINTS =>
                        b.delays = MeasurementsFrom(config, b.data, 1)

\* A bucket of three samples holds a PW change with a qualifying lambda
\* response, and has no measurement.
C24_Witness ==
    /\ DelaysCalculated
    /\ \E c \in Cells :
          LET b == buckets[c[1]][c[2]]
          IN  /\ Len(b.data) = 3
              /\ MeasurementsFrom(config, SortByTime(b.data), 1) # <<>>
              /\ b.delays = <<>>

\* The k-th smallest element of a non-empty list (k from 0), by counting.
KthSmallest(arr, k) ==
    CHOOSE v \in {arr[n] : n \in 1..Len(arr)} :
        /\ Cardinality({n \in 1..Len(arr) : arr[n] < v}) <= k
        /\ Cardinality({n \in 1..Len(arr) : arr[n] <= v}) > k

\* The median of a non-empty list read off its ascending order s: s[len/2]
\* for odd length, (s[len/2 - 1] + s[len/2]) / 2 for even length.
MedianOfSorted(arr) ==
    IF Len(arr) % 2 = 1
    THEN KthSmallest(arr, Len(arr) \div 2)
    ELSE (KthSmallest(arr, Len(arr) \div 2 - 1)
            + KthSmallest(arr, Len(arr) \div 2)) \div 2

\* C7: in every per-session delay table (generateTable and the table the
\* multi-session scripts and workers extract) cell [i][j] is null iff bucket
\* [i][j] has no measurement, and otherwise is the median of the bucket's
\* measurements rounded to one decimal place.
C7_TableCellNullIffNoMeasurement ==
    \A c \in Cells :
        LET delays == buckets[c[1]][c[2]].delays
            expected == IF delays = <<>> THEN NULL
                        ELSE Some(Round1(MedianOfSorted(delays)))
        IN  /\ table # NULL =>
                /\ At(At(table, c[1]).delays, c[2]) = expected
                /\ At(At(table, c[1]).delays, c[2]) = NULL <=> delays = <<>>
            /\ \A n \in 1..Len(allResults) :
                /\ allResults[n].delayTable[c[1]][c[2]].median = expected
                /\ allResults[n].delayTable[c[1]][c[2]].median = NULL
                     <=> delays = <<>>

\* Both tables were built from buckets of which one has two measurements and
\* the others have none.
C7_Witness ==
    /\ table # NULL
    /\ allResults # <<>>
    /\ \E c \in Cells :
         /\ Len(buckets[c[1]][c[2]].delays) = 2
         /\ buckets[c[1]][c[2]].delays[1] # buckets[c[1]][c[2]].delays[2]
         /\ At(At(table, c[1]).delays, c[2]) # NULL
         /\ allResults[1].delayTable[c[1]][c[2]].median # NULL
    /\ \E c \in Cells :
         /\ buckets[c[1]][c[2]].delays = <<>>
         /\ At(At(table, c[1]).delays, c[2]) = NULL
         /\ allResults[1].delayTable[c[1]][c[2]].median = NULL

----------------------------------------------------------------------------
(* Specification SpecMedian: median applied to one list of measurements.   *)

MaxLen == 4

DelayValues == {10000, 20000, 30000, 40000}

DelayLists == UNION {[1..n -> DelayValues] : n \in 0..MaxLen}

InitMedian ==
    /\ input \in DelayLists
    /\ output = NotRun
    /\ phase = "call"
    /\ AnalyzerIdle /\ ValidatorIdle /\ MetaIdle
    /\ PoolIdle /\ IoIdle

CallMedian ==
    /\ phase = "call"
    /\ output' = median(input)
    /\ phase' = "returned"
    /\ UNCHANGED <<input, analyzerVars, validatorVars, metaVars,
                   poolVars, ioVars>>

NextMedian == CallMedian

SpecMedian == InitMedian /\ [][NextMedian]_vars

Reordered(arr, perm) == [n \in 1..Len(arr) |-> arr[perm[n]]]

\* C6: for a non-empty list median is s[floor(len/2)] (odd length) or
\* (s[len/2 - 1] + s[len/2]) / 2 (even length) of the ascending order s, the
\* same for every reordering of the list ([100,200,300] -> 200,
\* [100,200,300,400] -> 250); for the empty list it is null, never 0.
C6_MedianOfSortedList ==
    phase = "returned" =>
        /\ input = <<>> => (output = NULL /\ output # Some(0))
        /\ input # <<>> =>
              /\ output = Some(MedianOfSorted(input))
              /\ \A perm \in Permutations(1..Len(input)) :
                    median(Reordered(input, perm)) = output
        /\ input = <<30000, 10000, 20000>> => output = Some(20000)
        /\ input = <<40000, 10000, 30000, 20000>> => output = Some(25000)

\* The median of an unsorted list of even length was taken.
C6_Witness ==
    /\ phase = "returned"
    /\ input = <<40000, 10000, 30000, 20000>>
    /\ output = Some(25000)

----------------------------------------------------------------------------
(* Specification SpecMeta: the sequential multi-session analysis.  Each    *)
(* log file either makes the analysis throw or yields a session table; the *)
(* session tables are drawn from a small family (SpecAnalyze is the model  *)
(* of how one is computed).                                                *)

MaxFiles == 3

SessionMedians == {9000, 10000, 11000}

Coverages == {{}, {<<0, 0>>}, {<<0, 0>>, <<1, 2>>}}

SessionTableOf(coverage, med) ==
    [i \in 0..(BUCKET_COUNT - 1) |->
        [j \in 0..(BUCKET_COUNT - 1) |->
            IF <<i, j>> \in coverage
            THEN [median |-> Some(med), count |-> 1]
            ELSE [median |-> NULL, count |-> 0]]]

FileOutcomes ==
    {[ok |-> FALSE]}
        \cup {[ok |-> TRUE, delayTable |-> SessionTableOf(cov, med)] :
                cov \in Coverages, med \in SessionMedians}

InitMeta ==
    /\ input \in UNION {[1..n -> FileOutcomes] : n \in 0..MaxFiles}
    /\ output = NotRun
    /\ phase = "analyzeFiles"
    /\ allResults = <<>>
    /\ failed = <<>>
    /\ bucketStats = NotRun
    /\ masterTable = NULL
    /\ AnalyzerIdle /\ ValidatorIdle
    /\ PoolIdle /\ IoIdle

FilesDone == Len(allResults) + Len(failed)

\* console.log(line) when console.log is bound to sink: the line reaches the
\* terminal only through the original function.
ConsoleLog(out, sink, line) ==
    IF sink = "original" THEN Append(out, line) ELSE out

\* console.log as the catch block finds and leaves it: the try block has
\* replaced it by () => {} and the throw skipped the restoring assignment.
SinkAfterCatch(sink) == "suppressed"

\* One iteration of the per-file loop.  originalLog is whatever console.log
\* is bound to when the iteration starts; console.log is replaced by
\* () => {}; then either the analysis returns, console.log is bound to
\* originalLog again, the result is pushed and the file's line is logged, or
\* the analysis throws and the catch block logs the error line.
AnalyzeFile ==
    /\ phase = "analyzeFiles"
    /\ FilesDone < Len(input)
    /\ LET file == FilesDone + 1
           originalLog == consoleLog
       IN  IF input[file].ok
           THEN /\ allResults' = Append(allResults,
                                    [file |-> file,
                                     delayTable |-> input[file].delayTable])
                /\ consoleLog' = originalLog
                /\ printed' = ConsoleLog(printed, originalLog,
                                         [mark |-> "success", file |-> file])
                /\ UNCHANGED failed
           ELSE /\ failed' = Append(failed, file)
                /\ consoleLog' = SinkAfterCatch(originalLog)
                /\ printed' = ConsoleLog(printed, SinkAfterCatch(originalLog),
                                         [mark |-> "failure", file |-> file])
                /\ UNCHANGED allResults
    /\ UNCHANGED <<fnVars, analyzerVars, phase, validatorVars, bucketStats,
                   masterTable, poolVars, columnsFound, exported, exitCode>>

ComputeBucketStats ==
    /\ phase = "analyzeFiles"
    /\ FilesDone = Len(input)
    /\ bucketStats' = BucketStatsOf(allResults)
    /\ printed' = ConsoleLog(printed, consoleLog,
                             [mark |-> "statistics", file |-> Len(allResults)])
    /\ phase' = "masterTable"
    /\ UNCHANGED <<fnVars, analyzerVars, validatorVars, allResults, failed,
                   masterTable, poolVars, columnsFound, consoleLog, exported,
                   exitCode>>

ComputeMasterTable ==
    /\ phase = "masterTable"
    /\ masterTable' = MasterTableOf(bucketStats)
    /\ printed' = ConsoleLog(printed, consoleLog,
                             [mark |-> "masterTable", file |-> Len(allResults)])
    /\ phase' = "crossValidate"
    /\ UNCHANGED <<fnVars, analyzerVars, validatorVars, allResults, failed,
                   bucketStats, poolVars, columnsFound, consoleLog, exported,
                   exitCode>>

NextMeta == AnalyzeFile \/ ComputeBucketStats \/ ComputeMasterTable

SpecMeta == InitMeta /\ [][NextMeta]_vars

\* The log files whose analysis succeeded with a non-null median for cell c.
Contributors(c) ==
    {f \in 1..Len(input) :
        input[f].ok /\ input[f].delayTable[c[1]][c[2]].median # NULL}

\* The medians of the contributors of c, in file order.
RECURSIVE ContributedMedians(_, _)
ContributedMedians(c, f) ==
    IF f > Len(input) THEN <<>>
    ELSE (IF f \in Contributors(c)
          THEN <<Val(input[f].delayTable[c[1]][c[2]].median)>>
          ELSE <<>>) \o ContributedMedians(c, f + 1)

\* C8: for every bucket, cross-session statistics exist and the master cell
\* is non-null iff at least 2 successfully analysed sessions have a non-null
\* median for it; the statistics are over exactly those sessions' medians,
\* and a bucket with 0 or 1 contributing sessions is null in the master table.
C8_StatsIffTwoSessions ==
    /\ phase \in {"masterTable", "crossValidate"} =>
         \A c \in Cells :
            /\ c \in DOMAIN bucketStats <=> Cardinality(Contributors(c)) >= 2
            /\ c \in DOMAIN bucketStats =>
                 /\ bucketStats[c].values = ContributedMedians(c, 1)
                 /\ bucketStats[c].filesWithData = Cardinality(Contributors(c))
    /\ phase = "crossValidate" =>
         \A c \in Cells :
            /\ masterTable[c[1]][c[2]] # NULL
                 <=> Cardinality(Contributors(c)) >= 2
            /\ Cardinality(Contributors(c)) >= 2 =>
                 masterTable[c[1]][c[2]]
                    = Some(Round1(Mean(ContributedMedians(c, 1))))

\* Of three log files one failed; one bucket has two contributing sessions,
\* one bucket has a single one and is null in the master table.
C8_Witness ==
    /\ phase = "crossValidate"
    /\ failed # <<>>
    /\ \E c \in Cells :
         /\ Cardinality(Contributors(c)) = 2
         /\ masterTable[c[1]][c[2]] # NULL
    /\ \E c \in Cells :
         /\ Cardinality(Contributors(c)) = 1
         /\ c \notin DOMAIN bucketStats
         /\ masterTable[c[1]][c[2]] = NULL

----------------------------------------------------------------------------
(* Specification SpecValidate: the cross-validation of one session: a new  *)
(* analyzer parses the log, computes the boundaries and the buckets, and   *)
(* calculateLambdaErrors is applied with a delay table.                    *)
(*                                                                         *)
(* The log holds three runs of samples, at RPM 1000, 2000 and 3000 and one *)
(* load, sampled at a fixed period; the run lengths lie around the         *)
(* threshold MIN_LAMBDAS.  The table holds one delay (or null) per RPM row.*)

RunLengths == {0, 1, MIN_LAMBDAS - 1, MIN_LAMBDAS}

SamplePeriods == {10, 100}

TableDelays == {NULL, Some(0), Some(40000), Some(50000), Some(200000)}

\* The k-th sample (from 0) of the log with run lengths na, nb, nc.
ValidationRow(na, nb, k, period) ==
    [time |-> k * period,
     rpm |-> IF k < na THEN 1000 ELSE IF k < na + nb THEN 2000 ELSE 3000,
     pw |-> 100,
     lambda |-> IF k < na THEN 90 + 20 * (k % 2)
                ELSE IF k < na + nb THEN 95 + 10 * (k % 2)
                ELSE 100,
     load |-> 50]

ValidationLogs ==
    {[k \in 1..(na + nb + nc) |-> ValidationRow(na, nb, k - 1, period)] :
        na \in RunLengths, nb \in RunLengths, nc \in RunLengths,
        period \in SamplePeriods}

RowTables ==
    {[i \in 0..(BUCKET_COUNT - 1) |-> [j \in 0..(BUCKET_COUNT - 1) |-> row[i]]] :
        row \in [0..(BUCKET_COUNT - 1) -> TableDelays]}

InitValidate ==
    /\ input \in ValidationLogs
    /\ output = NotRun
    /\ config = MetaConfig
    /\ data = <<>>
    /\ rpmBoundaries = NULL
    /\ loadBoundaries = NULL
    /\ buckets = EmptyBuckets
    /\ table = NULL
    /\ phase = "parseFile"
    /\ ValidatorIdle /\ MetaIdle
    /\ PoolIdle /\ IoIdle

CalculateLambdaErrors ==
    /\ phase = "bucketed"
    /\ \E tbl \in RowTables :
         /\ delayTable' = tbl
         /\ errors' = calculateLambdaErrors(config, data, rpmBoundaries,
                                            loadBoundaries, tbl)
    /\ phase' = "validated"
    /\ UNCHANGED <<fnVars, analyzerVars, metaVars,
                   poolVars, ioVars>>

NextValidate ==
    \/ ParseFile
    \/ CalculateBucketBoundaries
    \/ AssignToBuckets
    \/ CalculateLambdaErrors

SpecValidate == InitValidate /\ [][NextValidate]_vars

Validated == phase = "validated"

\* The accuracy list of bucket c in the result (empty when it has none).
RecordedLambdas(c) ==
    IF \E n \in 1..Len(errors.bucketErrors) : errors.bucketErrors[n].key = c
    THEN errors.bucketErrors[
            CHOOSE n \in 1..Len(errors.bucketErrors) :
                errors.bucketErrors[n].key = c].lambdas
    ELSE <<>>

BucketOfPoint(point) ==
    <<getBucketIndex(config, point.rpm, rpmBoundaries),
      getBucketIndex(config, point.load, loadBoundaries)>>

\* The distance, times 1000, from the target time of a point to the store
\* sample nearest to it.
NearestDistanceMs(point, estimatedDelay) ==
    SetMin({Abs(data[k].time * 1000 - (point.time * 1000 - estimatedDelay)) :
              k \in 1..Len(data)})

ShouldRecord(point, c) ==
    /\ BucketOfPoint(point) = c
    /\ delayTable[c[1]][c[2]] # NULL
    /\ NearestDistanceMs(point, Val(delayTable[c[1]][c[2]])) < 50000

RECURSIVE LambdasToRecord(_, _)
LambdasToRecord(c, k) ==
    IF k > Len(data) THEN <<>>
    ELSE (IF ShouldRecord(data[k], c) THEN <<data[k].lambda>> ELSE <<>>)
            \o LambdasToRecord(c, k + 1)

\* C9: the Validator records a sample's lambda into bucket b's accuracy list
\* iff the sample's bucket is b, the table has a non-null delay d for b, and
\* the store sample nearest to time - d/1000 is strictly less than 500 ms from
\* that target; every other sample contributes to no list.
C9_RecordedIffResolved ==
    Validated =>
        /\ \A c \in Cells : RecordedLambdas(c) = LambdasToRecord(c, 1)
        /\ \A n \in 1..Len(errors.bucketErrors) :
             /\ errors.bucketErrors[n].key \in Cells
             /\ errors.bucketErrors[n].lambdas # <<>>
             /\ \A m \in 1..Len(errors.bucketErrors) :
                  errors.bucketErrors[m].key = errors.bucketErrors[n].key
                     => m = n

\* With a delay of 500 ms and samples one second apart every nearest point is
\* exactly 500 ms away and the bucket records nothing, while a bucket with a
\* delay of 400 ms records its samples, and a bucket with a null delay none.
C9_Witness ==
    /\ Validated
    /\ \E c \in Cells :
         /\ delayTable[c[1]][c[2]] = Some(50000)
         /\ \E k \in 1..Len(data) :
              /\ BucketOfPoint(data[k]) = c
              /\ NearestDistanceMs(data[k], 50000) = 50000
         /\ RecordedLambdas(c) = <<>>
    /\ \E c \in Cells :
         /\ delayTable[c[1]][c[2]] = Some(40000)
         /\ Len(RecordedLambdas(c)) >= 2
    /\ \E c \in Cells :
         /\ delayTable[c[1]][c[2]] = NULL
         /\ \E k \in 1..Len(data) : BucketOfPoint(data[k]) = c

AnalyzedEntries ==
    {n \in 1..Len(errors.bucketErrors) :
        Len(errors.bucketErrors[n].lambdas) >= MIN_LAMBDAS}

\* C10: bucketsAnalyzed is the number of buckets whose accuracy list holds at
\* least 10 values and avgStdDev is the mean of the population standard
\* deviations of exactly those buckets; a bucket with fewer than 10 values
\* contributes neither a value nor a zero.
C10_AverageOverAnalyzedBuckets ==
    Validated =>
        /\ errors.bucketsAnalyzed = Cardinality(AnalyzedEntries)
        /\ errors.avgStdDev =
             IF AnalyzedEntries = {} THEN 0
             ELSE SumSeq([n \in 1..Len(errors.bucketErrors) |->
                            IF n \in AnalyzedEntries
                            THEN StdDev(errors.bucketErrors[n].lambdas)
                            ELSE 0])
                     \div Cardinality(AnalyzedEntries)

\* Two buckets reached 10 values with different deviations, a third did not,
\* and the average is over the two.
C10_Witness ==
    /\ Validated
    /\ Len(errors.bucketErrors) = 3
    /\ Cardinality(AnalyzedEntries) = 2
    /\ errors.bucketsAnalyzed = 2
    /\ \E n \in AnalyzedEntries, m \in AnalyzedEntries :
         StdDev(errors.bucketErrors[n].lambdas)
            > StdDev(errors.bucketErrors[m].lambdas)
    /\ errors.avgStdDev > 0

\* C11: whenever no bucket collects 10 recorded lambda values (no non-null
\* cell, fewer than 2 samples, or every nearest point 500 ms or more away)
\* calculateLambdaErrors returns exactly avgStdDev = 0 and bucketsAnalyzed = 0,
\* whatever the table holds; on a store without any sample it returns the
\* same, with no list at all.
C11_NoAnalyzedBucketGivesZero ==
    /\ (Validated /\ AnalyzedEntries = {}) =>
          /\ errors.avgStdDev = 0
          /\ errors.bucketsAnalyzed = 0
    /\ \A tbl \in RowTables :
          calculateLambdaErrors(config, <<>>, BoundariesOf(<<>>),
                                BoundariesOf(<<>>), tbl)
             = [bucketErrors |-> <<>>, avgStdDev |-> 0, bucketsAnalyzed |-> 0]

\* A table with non-null cells was applied to a store of at least two
\* samples, some lambdas were recorded, no bucket reached 10 and the result
\* is 0 over 0 buckets.
C11_Witness ==
    /\ Validated
    /\ Len(data) >= 2
    /\ errors.bucketErrors # <<>>
    /\ AnalyzedEntries = {}
    /\ errors.avgStdDev = 0
    /\ errors.bucketsAnalyzed = 0

----------------------------------------------------------------------------
(* Specification SpecNearest: the nearest-timestamp lookup of the two      *)
(* validators on one store and one target.  The store is time-sorted and   *)
(* duplicate-free, sampled on a grid of 0.25 s; the target is the time of  *)
(* one of its samples shifted back by a table delay.                       *)

MaxSlots == 5

SlotTime == 25

LookupDelays == {0, 12500, 25000, 50000, 62500}

TimeSlotSets == SUBSET (0..MaxSlots)

\* The store whose samples sit on the slots of S, in time order.
RECURSIVE StoreOf(_)
StoreOf(S) ==
    IF S = {} THEN <<>>
    ELSE <<[time |-> SetMin(S) * SlotTime, rpm |-> 3000, pw |-> 100,
            lambda |-> 100, load |-> 50]>> \o StoreOf(S \ {SetMin(S)})

InitNearest ==
    /\ \E S \in TimeSlotSets \ {{}} :
         \E p \in S, delay \in LookupDelays :
            input = [store |-> StoreOf(S),
                     targetMs |-> p * SlotTime * 1000 - delay]
    /\ output = <<>>
    /\ phase = "lookup"
    /\ AnalyzerIdle /\ ValidatorIdle /\ MetaIdle
    /\ PoolIdle /\ IoIdle

Looked(by) == \E n \in 1..Len(output) : output[n].by = by

LinearScan ==
    /\ phase = "lookup"
    /\ ~Looked("linear")
    /\ output' = Append(output,
                    [by |-> "linear",
                     index |-> LinearClosestIndex(input.store, input.targetMs)])
    /\ UNCHANGED <<input, phase, analyzerVars, validatorVars, metaVars,
                   poolVars, ioVars>>

FindClosestIndex ==
    /\ phase = "lookup"
    /\ ~Looked("binary")
    /\ output' = Append(output,
                    [by |-> "binary",
                     index |-> findClosestIndex(TimesOf(input.store),
                                                input.targetMs)])
    /\ UNCHANGED <<input, phase, analyzerVars, validatorVars, metaVars,
                   poolVars, ioVars>>

NextNearest == LinearScan \/ FindClosestIndex

SpecNearest == InitNearest /\ [][NextNearest]_vars

\* C12: on a time-sorted, duplicate-free store the linear scan and
\* findClosestIndex select the same nearest index for every target, also
\* when the target is equidistant from two neighbouring samples.
C12_SameNearestIndex ==
    \A n \in 1..Len(output), m \in 1..Len(output) :
        output[n].index = output[m].index

----------------------------------------------------------------------------
(* Specification SpecParallel: the parallel multi-session script.  Each log *)
(* file comes with what its analysis worker does (posts a result, posts a   *)
(* failure, raises an 'error' event, or stops with a non-zero exit code)    *)
(* and, when analysed, its session table and what its cross-validation      *)
(* worker does.  Workers in flight finish in any order.                     *)

MaxCPUs == 2

ParallelTables ==
    {SessionTableOf(cov, med) :
        cov \in {{<<0, 0>>}, {<<0, 0>>, <<1, 2>>}}, med \in {9000, 11000}}

ParallelFiles ==
    {[analysis |-> a, crossval |-> "message",
      delayTable |-> SessionTableOf({}, 10000)] :
        a \in {"failure", "error", "exit"}}
        \cup {[analysis |-> "success", crossval |-> "message",
                delayTable |-> t] : t \in ParallelTables}
        \cup {[analysis |-> "success", crossval |-> c,
                delayTable |-> SessionTableOf({<<0, 0>>}, 10000)] :
                c \in {"error", "exit"}}

InitParallel ==
    /\ input \in UNION {[1..n -> ParallelFiles] : n \in 0..MaxFiles}
    /\ output = NULL
    /\ phase = "start"
    /\ numCPUs \in 1..MaxCPUs
    /\ fileIndex = 0
    /\ completed = 0
    /\ activeWorkers = 0
    /\ workers = <<>>
    /\ results = <<>>
    /\ promise = [analysis |-> "none", crossValidation |-> "none"]
    /\ tempFiles = {}
    /\ AnalyzerIdle /\ ValidatorIdle /\ MetaIdle /\ IoIdle

\* The script writes the worker file and calls processFilesInParallel, whose
\* executor starts the initial batch of workers.
ProcessFilesInParallel ==
    /\ phase = "start"
    /\ tempFiles' = tempFiles \cup {workerFile}
    /\ results' = <<>>
    /\ completed' = 0
    /\ activeWorkers' = InitialWorkers(numCPUs, Len(input))
    /\ fileIndex' = InitialWorkers(numCPUs, Len(input))
    /\ workers' = InitialBatch(numCPUs, Len(input))
    /\ promise' = [promise EXCEPT !.analysis = "pending"]
    /\ phase' = "analysis"
    /\ UNCHANGED <<fnVars, analyzerVars, validatorVars, metaVars, numCPUs,
                   ioVars>>

Running(w) == w \in 1..Len(workers) /\ workers[w] = "running"

\* worker.on('message') of processFilesInParallel.
WorkerMessage(w) ==
    /\ phase = "analysis"
    /\ Running(w)
    /\ input[w].analysis \in {"success", "failure"}
    /\ LET finished == completed + 1 = Len(input)
       IN  /\ completed' = completed + 1
           /\ results' = IF input[w].analysis = "success"
                         THEN Append(results,
                                [file |-> w, delayTable |-> input[w].delayTable])
                         ELSE results
           /\ printed' = Append(printed,
                            [mark |-> input[w].analysis, file |-> w])
           /\ workers' = AfterMessage(workers, w, finished, fileIndex,
                                      Len(input))
           /\ fileIndex' = IndexAfterMessage(finished, fileIndex, Len(input))
           /\ activeWorkers' = activeWorkers - 1
                                 + (fileIndex' - fileIndex)
           /\ promise' = IF finished
                         THEN [promise EXCEPT !.analysis = "resolved"]
                         ELSE promise
    /\ UNCHANGED <<fnVars, analyzerVars, validatorVars, metaVars, numCPUs,
                   tempFiles, phase, columnsFound, consoleLog, exported,
                   exitCode>>

\* worker.on('error', reject), or worker.on('exit') with a non-zero code:
\* the promise is rejected and the .catch of the script removes the worker
\* file and ends the process with status 1.
WorkerFailed(w) ==
    /\ phase = "analysis"
    /\ Running(w)
    /\ input[w].analysis \in {"error", "exit"}
    /\ workers' = [workers EXCEPT ![w] = "failed"]
    /\ promise' = [promise EXCEPT !.analysis = "rejected"]
    /\ tempFiles' = tempFiles \ {workerFile}
    /\ exitCode' = Some(1)
    /\ phase' = "exited"
    /\ UNCHANGED <<fnVars, analyzerVars, validatorVars, metaVars, numCPUs,
                   fileIndex, completed, activeWorkers, results, columnsFound,
                   consoleLog, printed, exported>>

\* The first .then of the script: the worker file is removed, the statistics,
\* the master table and its code format are computed and printed, and
\* crossValidateParallel writes its worker file and starts its initial batch.
ThenAggregate ==
    /\ phase = "analysis"
    /\ promise.analysis = "resolved"
    /\ allResults' = results
    /\ bucketStats' = BucketStatsOf(results)
    /\ masterTable' = MasterTableOf(BucketStatsOf(results))
    /\ output' = CodeFormatOf(MasterTableOf(BucketStatsOf(results)))
    /\ tempFiles' = (tempFiles \ {workerFile}) \cup {crossValWorkerFile}
    /\ results' = <<>>
    /\ completed' = 0
    /\ fileIndex' = InitialWorkers(numCPUs, Len(results))
    /\ workers' = InitialBatch(numCPUs, Len(results))
    /\ promise' = [promise EXCEPT !.crossValidation = "pending"]
    /\ phase' = "crossValidation"
    /\ UNCHANGED <<input, analyzerVars, validatorVars, failed, numCPUs,
                   activeWorkers, ioVars>>

CrossValOutcome(w) == input[allResults[w].file].crossval

\* worker.on('message') of crossValidateParallel.
CrossValMessage(w) ==
    /\ phase = "crossValidation"
    /\ Running(w)
    /\ CrossValOutcome(w) = "message"
    /\ LET finished == completed + 1 = Len(allResults)
       IN  /\ completed' = completed + 1
           /\ results' = Append(results, [file |-> allResults[w].file])
           /\ workers' = AfterMessage(workers, w, finished, fileIndex,
                                      Len(allResults))
           /\ fileIndex' = IndexAfterMessage(finished, fileIndex,
                                             Len(allResults))
           /\ tempFiles' = IF finished THEN tempFiles \ {crossValWorkerFile}
                           ELSE tempFiles
           /\ promise' = IF finished
                         THEN [promise EXCEPT !.crossValidation = "resolved"]
                         ELSE promise
    /\ UNCHANGED <<fnVars, analyzerVars, validatorVars, metaVars, numCPUs,
                   activeWorkers, phase, ioVars>>

\* The worker script has no try/catch: whatever it throws is an 'error'
\* event.  worker.on('error', reject) rejects the promise and the .catch of
\* the script ends the process with status 1; the worker file of the
\* cross-validation stays on disk.
CrossValError(w) ==
    /\ phase = "crossValidation"
    /\ Running(w)
    /\ CrossValOutcome(w) = "error"
    /\ workers' = [workers EXCEPT ![w] = "failed"]
    /\ promise' = [promise EXCEPT !.crossValidation = "rejected"]
    /\ exitCode' = Some(1)
    /\ phase' = "exited"
    /\ UNCHANGED <<fnVars, analyzerVars, validatorVars, metaVars, numCPUs,
                   fileIndex, completed, activeWorkers, results, tempFiles,
                   columnsFound, consoleLog, printed, exported>>

\* crossValidateParallel listens to no 'exit' event: a worker that stops
\* without a message and without an error is not noticed.
CrossValExit(w) ==
    /\ phase = "crossValidation"
    /\ Running(w)
    /\ CrossValOutcome(w) = "exit"
    /\ workers' = [workers EXCEPT ![w] = "stopped"]
    /\ UNCHANGED <<fnVars, analyzerVars, validatorVars, metaVars, numCPUs,
                   fileIndex, completed, activeWorkers, results, promise,
                   tempFiles, phase, ioVars>>

\* The second .then of the script prints the cross-validation report.
ThenReport ==
    /\ phase = "crossValidation"
    /\ promise.crossValidation = "resolved"
    /\ printed' = Append(printed, [mark |-> "report", file |-> Len(results)])
    /\ phase' = "done"
    /\ UNCHANGED <<fnVars, analyzerVars, validatorVars, metaVars, poolVars,
                   columnsFound, consoleLog, exported, exitCode>>

NextParallel ==
    \/ ProcessFilesInParallel
    \/ \E w \in 1..MaxFiles : WorkerMessage(w)
    \/ \E w \in 1..MaxFiles : WorkerFailed(w)
    \/ ThenAggregate
    \/ \E w \in 1..MaxFiles : CrossValMessage(w)
    \/ \E w \in 1..MaxFiles : CrossValError(w)
    \/ \E w \in 1..MaxFiles : CrossValExit(w)
    \/ ThenReport

SpecParallel == InitParallel /\ [][NextParallel]_vars

\* The workers started and not yet reported, failed or stopped.
InFlight == Cardinality({w \in 1..Len(workers) : workers[w] = "running"})

NoWorkerStopped == \A w \in 1..Len(workers) : workers[w] # "stopped"

\* C13: the number of workers in flight never exceeds the CPU count, and as
\* long as no worker has failed it equals min(numCPUs, items not yet
\* completed), in the analysis pool (where it is also what activeWorkers
\* counts) and in the cross-validation pool: a worker that reports while
\* items remain undispatched is replaced at once.
C13_PoolBoundedAndSaturated ==
    /\ InFlight <= numCPUs
    /\ phase = "analysis" =>
          /\ InFlight = MinOf(numCPUs, Len(input) - completed)
          /\ activeWorkers = InFlight
          /\ fileIndex = completed + InFlight
    /\ (phase = "crossValidation" /\ NoWorkerStopped) =>
          /\ InFlight = MinOf(numCPUs, Len(allResults) - completed)
          /\ fileIndex = completed + InFlight

\* With more files than CPUs a worker has reported, the last file has been
\* dispatched in its place and the pool is full again.
C13_Witness ==
    /\ phase = "analysis"
    /\ Len(input) > numCPUs
    /\ completed = 1
    /\ fileIndex = numCPUs + 1
    /\ InFlight = numCPUs
    /\ workers[fileIndex] = "running"

\* Every enabled step of the script and of its workers is eventually taken.
SpecParallelFair == SpecParallel /\ WF_vars(NextParallel)

\* The log files whose analysis worker posts a result.
Succeeded == {f \in 1..Len(input) : input[f].analysis = "success"}

Aggregated == promise.crossValidation # "none"

\* C14: the failure of one session's worker, in either phase and however it
\* shows (failure message, 'error' event, non-zero exit code), does not abort
\* the sibling sessions: the run is never ended by it, every failure reported
\* as a message is printed as such, and the sessions that succeeded are the
\* ones delivered to the aggregation and, at the end, to the report.
C14_WorkerFailureDoesNotAbort ==
    /\ exitCode = NULL
    /\ phase # "exited"
    /\ \A n \in 1..Len(printed) :
          printed[n].mark = "failure" =>
             input[printed[n].file].analysis = "failure"
    /\ Aggregated =>
          {allResults[k].file : k \in 1..Len(allResults)} = Succeeded
    /\ phase = "done" =>
          {results[k].file : k \in 1..Len(results)} = Succeeded

\* C15: with every started worker eventually posting a message or raising
\* an error, the promise of processFilesInParallel and the promise of
\* crossValidateParallel eventually settle, whatever the list of log files
\* and the list of successful sessions, the empty lists included.
C15_PromisesEventuallySettle ==
    /\ (promise.analysis = "pending") ~> (promise.analysis # "pending")
    /\ (promise.crossValidation = "pending")
          ~> (promise.crossValidation # "pending" \/ ~NoWorkerStopped)

\* C17: a cell without enough data is never put out as the number 0: a
\* session cell without measurement and a master cell with fewer than two
\* contributing sessions are null, and the rows printed as
\* defaultLambdaDelayTable do not show 0 for a null master cell.
C17_AbsentCellNeverZero ==
    Aggregated =>
        \A c \in Cells :
            /\ \A k \in 1..Len(allResults) :
                  allResults[k].delayTable[c[1]][c[2]].count = 0
                     => allResults[k].delayTable[c[1]][c[2]].median = NULL
            /\ Len(CollectMedians(allResults, c[1], c[2])) < 2
                  => masterTable[c[1]][c[2]] = NULL
            /\ masterTable[c[1]][c[2]] = NULL => output[c[1]][c[2]] # 0

\* The lines on the terminal that carry the given mark.
PrintedFiles(mark) ==
    {printed[n].file : n \in {n \in 1..Len(printed) : printed[n].mark = mark}}

\* C16: in the sequential multi-session analysis a session that fails with an
\* input error is visibly reported as failed and excluded from allResults,
\* the other files are analysed and their lines, the cross-session
\* statistics and the master table are visibly printed: console.log is the
\* original sink after every per-file attempt.
C16_FailedFileReportedAndOutputRestored ==
    /\ consoleLog = "original"
    /\ PrintedFiles("failure") = {failed[n] : n \in 1..Len(failed)}
    /\ PrintedFiles("success") = {allResults[n].file : n \in 1..Len(allResults)}
    /\ \A n \in 1..Len(allResults) : input[allResults[n].file].ok
    /\ \A n \in 1..Len(failed) : ~input[failed[n]].ok
    /\ phase \in {"masterTable", "crossValidate"} =>
          /\ Len(allResults) + Len(failed) = Len(input)
          /\ PrintedFiles("statistics") # {}
    /\ phase = "crossValidate" => PrintedFiles("masterTable") # {}

\* allResults of the sequential script for the same files: the per-file loop
\* of meta_analysis.js from file f on, in sorted file order, a file whose
\* analysis throws being left out.
RECURSIVE SequentialResults(_, _)
SequentialResults(files, f) ==
    IF f > Len(files) THEN <<>>
    ELSE (IF files[f].analysis = "success"
          THEN <<[file |-> f, delayTable |-> files[f].delayTable]>>
          ELSE <<>>) \o SequentialResults(files, f + 1)

RunEnded == phase \in {"done", "exited"}

\* C29: when the parallel run ends, on the success path and on every
\* failure path (worker error or non-zero exit in either phase), neither
\* .worker_temp.js nor .crossval_worker_temp.js exists any more.
C29_TempFilesDeletedAtEnd == RunEnded => tempFiles = {}

\* The log files handed to a worker so far: startWorker takes
\* logFiles[fileIndex++], so the w-th worker started has the w-th file.
Dispatched == 1..Len(workers)

\* The sessions in the list, as a set of file numbers.
FilesOf(list) == {list[k].file : k \in 1..Len(list)}

\* C30: in processFilesInParallel, under every interleaving of worker
\* completions, the files are dispatched one by one in list order, each to
\* one worker (as many workers as fileIndex counts, never more than files);
\* the promise is resolved only when completed equals the number of log
\* files, and then every file has been dispatched, no worker is left that
\* could report and resolve again, and results (handed on as allResults)
\* holds exactly the sessions that reported success, each once.
C30_EveryFileDispatchedOnceResolvedOnce ==
    /\ phase = "analysis" =>
          /\ Len(workers) = fileIndex
          /\ fileIndex <= Len(input)
          /\ completed <= fileIndex
          /\ Len(results) = Cardinality(FilesOf(results))
          /\ FilesOf(results) \subseteq Succeeded
          /\ promise.analysis = "pending" => completed < Len(input) \/ input = <<>>
    /\ (phase = "analysis" /\ promise.analysis = "resolved") =>
          /\ completed = Len(input)
          /\ Dispatched = 1..Len(input)
          /\ \A w \in Dispatched : workers[w] = "reported"
          /\ FilesOf(results) = Succeeded
    /\ Aggregated =>
          /\ promise.analysis = "resolved"
          /\ Len(allResults) = Cardinality(Succeeded)
          /\ FilesOf(allResults) = Succeeded

\* Three files on fewer CPUs: all were dispatched, the workers reported out
\* of file order, one reported a failure, and the promise is resolved with
\* the two successful sessions.
C30_Witness ==
    /\ phase = "analysis"
    /\ promise.analysis = "resolved"
    /\ Len(input) >= 3
    /\ numCPUs < Len(input)
    /\ Cardinality(Succeeded) = 2
    /\ Len(results) = 2
    /\ results[1].file > results[2].file

----------------------------------------------------------------------------
(* Specification SpecSingle: analyze() on one log file, with the            *)
(* configuration given to the constructor (CONFIG when none is given).  The *)
(* log has zero to two rows, of which some fall below MIN_RPM, and may lack *)
(* a required column.                                                       *)

SingleRows ==
    Rows \cup {[time |-> 0, rpm |-> 400, pw |-> 100, lambda |-> 100,
                load |-> 50]}

SingleLogs ==
    {<<>>} \cup {<<a>> : a \in SingleRows}
           \cup {<<a, b>> : a \in SingleRows, b \in SingleRows}

InitSingle ==
    /\ input \in SingleLogs
    /\ output = NotRun
    /\ config \in Configs
    /\ data = <<>>
    /\ rpmBoundaries = NULL
    /\ loadBoundaries = NULL
    /\ buckets = EmptyBuckets
    /\ table = NULL
    /\ phase = "parseFile"
    /\ columnsFound \in BOOLEAN
    /\ consoleLog = "original"
    /\ printed = <<>>
    /\ exported = NULL
    /\ exitCode = NULL
    /\ ValidatorIdle /\ MetaIdle /\ PoolIdle

ExportResults ==
    /\ phase = "report"
    /\ table # NULL
    /\ exported' = exportResults(config, data, buckets, rpmBoundaries,
                                 loadBoundaries, table)
    /\ phase' = "done"
    /\ UNCHANGED <<fnVars, analyzerVars, validatorVars, metaVars, poolVars,
                   columnsFound, consoleLog, printed, exitCode>>

\* Mutant: the catch block reports the error and lets the process end
\* normally.
AnalyzeCatchExitsZero ==
    /\ phase = "threw"
    /\ exitCode' = Some(0)
    /\ phase' = "exited"
    /\ UNCHANGED <<fnVars, analyzerVars, validatorVars, metaVars, poolVars,
                   columnsFound, consoleLog, printed, exported>>

\* The catch block of analyze(): console.error and process.exit(1).
AnalyzeCatch ==
    /\ phase = "threw"
    /\ exitCode' = Some(1)
    /\ phase' = "exited"
    /\ UNCHANGED <<fnVars, analyzerVars, validatorVars, metaVars, poolVars,
                   columnsFound, consoleLog, printed, exported>>

NextSingle ==
    \/ ParseFile
    \/ CalculateBucketBoundaries
    \/ AssignToBuckets
    \/ CalculateDelays
    \/ GenerateTable
    \/ ExportResults
    \/ AnalyzeCatch

SpecSingle == InitSingle /\ [][NextSingle]_vars

\* C18: metadata.config of the export equals the configuration the analyzer
\* used: the one given to the constructor, CONFIG only when none was given.
C18_ExportedConfigIsConfigUsed ==
    phase = "done" => exported.metadata.config = config

\* lambda_delay_table.json has been written.
Written == DOMAIN exported # {}

\* The order of the steps of analyze(), as pairs of script positions.
AnalyzeOrder ==
    {<<"parseFile", "calculateBucketBoundaries">>,
     <<"calculateBucketBoundaries", "assignToBuckets">>,
     <<"assignToBuckets", "bucketed">>,
     <<"bucketed", "report">>,
     <<"report", "done">>,
     <<"parseFile", "threw">>,
     <<"calculateBucketBoundaries", "threw">>,
     <<"threw", "exited">>}

AnalyzeStep ==
    /\ phase' # phase => <<phase, phase'>> \in AnalyzeOrder
    /\ data' # data => phase = "parseFile"
    /\ <<rpmBoundaries', loadBoundaries'>> # <<rpmBoundaries, loadBoundaries>>
          => phase = "calculateBucketBoundaries"
    /\ buckets' # buckets => phase \in {"assignToBuckets", "bucketed"}
    /\ table' # table => (phase = "report" /\ ~Written)
    /\ (Written' /\ ~Written) => (phase = "report" /\ table # NULL)
    /\ phase = "threw" =>
          /\ phase' = "exited"
          /\ exitCode' = Some(1)
          /\ UNCHANGED <<analyzerVars, exported>>
    /\ phase' \in {"threw", "exited"} => (~Written' /\ table' = NULL)
    /\ exitCode' # NULL => (exitCode' = Some(1) /\ phase' = "exited")

\* C19: analyze() runs parseFile, calculateBucketBoundaries, assignToBuckets,
\* calculateDelays, generateTable and exportResults in that order; when a
\* step throws no later step runs, the process exits with status 1 and no
\* export file is written.
C19_StepsInOrderAndThrowExits == [][AnalyzeStep]_vars

\* parseFile returned an empty store, calculateBucketBoundaries threw, and
\* the process exited with status 1 without a table and without an export.
C19_Witness ==
    /\ phase = "exited"
    /\ columnsFound
    /\ input # <<>>
    /\ data = <<>>
    /\ exitCode = Some(1)
    /\ table = NULL
    /\ ~Written

----------------------------------------------------------------------------
(* Specification SpecRerun: the Bucketer run twice on one analyzer: after   *)
(* parseFile, calculateBucketBoundaries and assignToBuckets the caller      *)
(* keeps what the first run produced and calls the two methods again.       *)

InitRerun ==
    /\ input \in SingleLogs
    /\ output = <<>>
    /\ config \in Configs
    /\ data = <<>>
    /\ rpmBoundaries = NULL
    /\ loadBoundaries = NULL
    /\ buckets = EmptyBuckets
    /\ table = NULL
    /\ phase = "parseFile"
    /\ ValidatorIdle /\ MetaIdle
    /\ PoolIdle /\ IoIdle

\* The caller notes the result of the first run and starts the second.
RunBucketerAgain ==
    /\ phase = "bucketed"
    /\ output = <<>>
    /\ output' = <<[rpmBoundaries |-> rpmBoundaries,
                    loadBoundaries |-> loadBoundaries,
                    buckets |-> buckets]>>
    /\ phase' = "calculateBucketBoundaries"
    /\ UNCHANGED <<input, analyzerVars, validatorVars, metaVars, poolVars,
                   ioVars>>

NextRerun ==
    \/ ParseFile
    \/ CalculateBucketBoundaries
    \/ AssignToBuckets
    \/ RunBucketerAgain

SpecRerun == InitRerun /\ [][NextRerun]_vars

\* C20: a second run of calculateBucketBoundaries and assignToBuckets on the
\* same store yields the boundaries of the first run and the bucket
\* assignments of the first run: each bucket holds the same samples.
C20_RerunSameBoundariesAndBuckets ==
    (phase = "bucketed" /\ output # <<>>) =>
        /\ rpmBoundaries = output[1].rpmBoundaries
        /\ loadBoundaries = output[1].loadBoundaries
        /\ \A c \in Cells :
              buckets[c[1]][c[2]].data = output[1].buckets[c[1]][c[2]].data

----------------------------------------------------------------------------
(* Specification SpecPipeline: every operation that works on the Sample     *)
(* Store of one session, in the order of validate_delays.js: parseFile,     *)
(* calculateBucketBoundaries, assignToBuckets, calculateDelays, then (for   *)
(* the single-file report) generateTable, and the validation of the         *)
(* session's own table of medians.  The rows of the log need not be in time *)
(* order.                                                                   *)

InitPipeline ==
    /\ input \in Logs
    /\ output = NotRun
    /\ config = LooseMedConfig
    /\ data = <<>>
    /\ rpmBoundaries = NULL
    /\ loadBoundaries = NULL
    /\ buckets = EmptyBuckets
    /\ table = NULL
    /\ phase = "parseFile"
    /\ ValidatorIdle /\ MetaIdle
    /\ PoolIdle /\ IoIdle

\* delayTable[i][j] = delays.length > 0 ? analyzer.median(delays) : null
OwnDelayTable(bs) ==
    [i \in 0..(BUCKET_COUNT - 1) |->
        [j \in 0..(BUCKET_COUNT - 1) |->
            IF Len(bs[i][j].delays) > 0 THEN median(bs[i][j].delays)
            ELSE NULL]]

\* The validation loop over analyzer.data with the session's own table; the
\* lambdas it collects per bucket and their statistics are those of
\* calculateLambdaErrors.
ValidateOwnTable ==
    /\ phase = "report"
    /\ delayTable' = OwnDelayTable(buckets)
    /\ errors' = calculateLambdaErrors(config, data, rpmBoundaries,
                                       loadBoundaries, OwnDelayTable(buckets))
    /\ phase' = "validated"
    /\ UNCHANGED <<fnVars, analyzerVars, metaVars, poolVars, ioVars>>

NextPipeline ==
    \/ ParseFile
    \/ CalculateBucketBoundaries
    \/ AssignToBuckets
    \/ CalculateDelays
    \/ GenerateTable
    \/ ValidateOwnTable

SpecPipeline == InitPipeline /\ [][NextPipeline]_vars

\* How often sample r occurs in the list.
Occurrences(list, r) == Cardinality({k \in 1..Len(list) : list[k] = r})

SamplesOf(list) == {list[k] : k \in 1..Len(list)}

IsTimeSorted(list) ==
    \A k \in 1..(Len(list) - 1) : list[k].time <= list[k + 1].time

\* What one step may do to the store, the bucket lists and the measurements.
StoreFrame ==
    /\ phase # "parseFile" => (data = parseFile(config, input) /\ data' = data)
    /\ \A c \in Cells :
          LET before == buckets[c[1]][c[2]]
              after == buckets'[c[1]][c[2]]
          IN  /\ SamplesOf(after.data) \subseteq SamplesOf(data')
              /\ phase # "assignToBuckets" =>
                    \A r \in SamplesOf(before.data) \cup SamplesOf(after.data) :
                       Occurrences(after.data, r) = Occurrences(before.data, r)
              /\ phase \notin {"assignToBuckets", "bucketed"} =>
                    after.data = before.data
              /\ phase # "bucketed" => after.delays = before.delays

\* C22: after parseFile no operation of the pipeline changes the content or
\* the order of the Sample Store or alters a sample: the in-place sort of
\* findDelaysInSequence permutes the bucket's own list only, the bucket
\* lists hold store samples and nothing else, and median (generateTable, the
\* validation) leaves the measurement lists as they are.
C22_StoreImmutableAfterParse == [][StoreFrame]_vars

\* A store that is not in time order went through the whole pipeline: its
\* bucket was sorted by time, a table was generated and validated, and the
\* store still is the parsed log in file order.
C22_Witness ==
    /\ phase = "validated"
    /\ table # NULL
    /\ data = parseFile(config, input)
    /\ ~IsTimeSorted(data)
    /\ \E c \in Cells :
          /\ Len(buckets[c[1]][c[2]].data) = Len(data)
          /\ IsTimeSorted(buckets[c[1]][c[2]].data)
          /\ buckets[c[1]][c[2]].data # data
          /\ buckets[c[1]][c[2]].delays # <<>>

----------------------------------------------------------------------------
(* Specification SpecWindow: the Delay Detector on a bucket longer than the *)
(* look-ahead window.  The log is sampled every 10 ms at one RPM and load;  *)
(* the pulsewidth steps up once, at index lead, and lambda answers at most  *)
(* once, offset samples later (offset 0: never).                            *)

MaxLead == 3

ResponseOffsets ==
    {0, 1, 2, LOOKAHEAD - 2, LOOKAHEAD - 1, LOOKAHEAD, LOOKAHEAD + 1}

WindowLog(lead, offset) ==
    [k \in 1..(lead + LOOKAHEAD + 3) |->
        [time |-> k - 1,
         rpm |-> 3000,
         pw |-> IF k - 1 < lead THEN 100 ELSE 200,
         lambda |-> IF offset > 0 /\ k - 1 = lead + offset THEN 90 ELSE 100,
         load |-> 50]]

InitWindow ==
    /\ \E lead \in 1..MaxLead, offset \in ResponseOffsets :
          input = WindowLog(lead, offset)
    /\ output = NotRun
    /\ config \in Configs
    /\ data = <<>>
    /\ rpmBoundaries = NULL
    /\ loadBoundaries = NULL
    /\ buckets = EmptyBuckets
    /\ table = NULL
    /\ phase = "parseFile"
    /\ ValidatorIdle /\ MetaIdle
    /\ PoolIdle /\ IoIdle

NextWindow ==
    \/ ParseFile
    \/ CalculateBucketBoundaries
    \/ AssignToBuckets
    \/ CalculateDelays

SpecWindow == InitWindow /\ [][NextWindow]_vars

\* The qualifying lambda responses to the PW change at i among the indices
\* i+1 .. i+reach, truncated at the end of the bucket.
ResponsesWithin(cfg, d, i, reach) ==
    {j \in (i + 1)..MinOf(i + reach, Len(d) - 1) :
        /\ Sign(At(d, j).lambda - At(d, i).lambda)
             = 0 - Sign(At(d, i).pw - At(d, i - 1).pw)
        /\ Abs(At(d, j).lambda - At(d, i).lambda) >= cfg.LAMBDA_CHANGE_THRESHOLD
        /\ TimeDiffMs(d, i, j) <= cfg.MAX_DELAY_MS}

\* The PW-change events of the bucket that produced a measurement if the
\* scan covers i+1 .. i+reach.
EventsAnswered(cfg, d, reach) ==
    {i \in 1..(Len(d) - 2) :
        IsPwEvent(cfg, d, i) /\ ResponsesWithin(cfg, d, i, reach) # {}}

\* The detector's result on each bucket it analysed is what a scan of
\* i+1 .. i+reach gives: one measurement per answered event, the time to the
\* first response in that range.
ScanCovers(reach) ==
    DelaysCalculated =>
        \A c \in Cells :
            LET b == buckets[c[1]][c[2]]
                answered == EventsAnswered(config, b.data, reach)
            IN  Len(b.data) >= MIN_BUCKET_POINTS =>
                   /\ Len(b.delays) = Cardinality(answered)
                   /\ \A i \in answered :
                         \E k \in 1..Len(b.delays) :
                            b.delays[k] =
                               TimeDiffMs(b.data, i,
                                  SetMin(ResponsesWithin(config, b.data, i,
                                                         reach)))

\* C23 as stated: for a PW-change event at index i the scan examines exactly
\* the indices i+1 .. i+100 (truncated at the end of the bucket): a
\* qualifying response at i+100 yields a measurement, none beyond does.
C23_ScanCoversHundredSamples == ScanCovers(LOOKAHEAD)

\* C23 amended: for a PW-change event at index i the scan examines exactly
\* the indices i+1 .. i+99 (truncated at the end of the bucket), the window
\* of 100 samples counting sample i itself: a qualifying response at i+99
\* yields a measurement, and none at i+100 or beyond is ever matched.
C23_ScanCoversNinetyNineSamples == ScanCovers(LOOKAHEAD - 1)

\* The only response to the PW change at i sits at i+99 and was measured.
C23_Witness ==
    /\ DelaysCalculated
    /\ \E c \in Cells :
          LET b == buckets[c[1]][c[2]]
          IN  /\ Len(b.data) > LOOKAHEAD
              /\ \E i \in 1..(Len(b.data) - 2) :
                    /\ IsPwEvent(config, b.data, i)
                    /\ ResponsesWithin(config, b.data, i, LOOKAHEAD + 1)
                          = {i + LOOKAHEAD - 1}
                    /\ b.delays = <<TimeDiffMs(b.data, i, i + LOOKAHEAD - 1)>>

----------------------------------------------------------------------------
(* Specification SpecBoundaries: the Bucketer on a fresh analyzer whose     *)
(* store varies on both axes: parseFile, calculateBucketBoundaries,         *)
(* assignToBuckets.  The rows come in any order of RPM and load.            *)

MaxStore == 4

AxisRows ==
    {[time |-> 0, rpm |-> r, pw |-> 100, lambda |-> 100, load |-> l] :
        r \in {1000, 2000, 3000}, l \in {20, 50}}

InitBoundaries ==
    /\ input \in UNION {[1..n -> AxisRows] : n \in 0..MaxStore}
    /\ output = NotRun
    /\ config = CONFIG
    /\ data = <<>>
    /\ rpmBoundaries = NULL
    /\ loadBoundaries = NULL
    /\ buckets = EmptyBuckets
    /\ table = NULL
    /\ phase = "parseFile"
    /\ ValidatorIdle /\ MetaIdle
    /\ PoolIdle /\ IoIdle

NextBoundaries ==
    \/ ParseFile
    \/ CalculateBucketBoundaries
    \/ AssignToBuckets

SpecBoundaries == InitBoundaries /\ [][NextBoundaries]_vars

\* [min, s[floor(n/3)], s[floor(2n/3)], max] of the ascending order s of a
\* non-empty list, read off by counting.
CutPoints(values) ==
    <<KthSmallest(values, 0),
      KthSmallest(values, Len(values) \div 3),
      KthSmallest(values, (2 * Len(values)) \div 3),
      KthSmallest(values, Len(values) - 1)>>

BoundariesComputed == phase \in {"assignToBuckets", "bucketed"}

\* C25: for every non-empty store calculateBucketBoundaries yields on each
\* axis the four cut points [min, s[floor(n/3)], s[floor(2n/3)], max] of the
\* ascending-sorted values s, and they are non-decreasing.
C25_BoundariesAreOrderStatistics ==
    (BoundariesComputed /\ data # <<>>) =>
        /\ rpmBoundaries = CutPoints(RpmsOf(data))
        /\ loadBoundaries = CutPoints(LoadsOf(data))
        /\ IsNonDecreasing(rpmBoundaries)
        /\ IsNonDecreasing(loadBoundaries)

\* The boundaries of a store whose RPM values are not in ascending order and
\* spread over three different cut points.
C25_Witness ==
    /\ BoundariesComputed
    /\ Len(data) >= 3
    /\ ~IsNonDecreasing(RpmsOf(data))
    /\ rpmBoundaries[1] < rpmBoundaries[3]
    /\ rpmBoundaries[3] < rpmBoundaries[4]
    /\ loadBoundaries[1] < loadBoundaries[4]

\* The buckets whose list holds sample r.
BucketsHolding(r) == {c \in Cells : r \in SamplesOf(buckets[c[1]][c[2]].data)}

Populations ==
    SumSeq([k \in 1..(BUCKET_COUNT * BUCKET_COUNT) |->
              Len(buckets[(k - 1) \div BUCKET_COUNT][(k - 1) % BUCKET_COUNT].data)])

\* C26: with the boundaries derived from the same store, one run of
\* assignToBuckets on a fresh analyzer puts every sample of the store into
\* exactly one bucket: getBucketIndex returns -1 for no sample on either
\* axis, every sample is in the bucket of its two indices and in no other,
\* as often as it is in the store, and the bucket populations add up to the
\* size of the store.
C26_EverySampleInExactlyOneBucket ==
    phase = "bucketed" =>
        /\ \A k \in 1..Len(data) :
              /\ getBucketIndex(config, data[k].rpm, rpmBoundaries) # 0 - 1
              /\ getBucketIndex(config, data[k].load, loadBoundaries) # 0 - 1
              /\ BucketsHolding(data[k]) = {BucketOfPoint(data[k])}
              /\ Occurrences(buckets[BucketOfPoint(data[k])[1]]
                                     [BucketOfPoint(data[k])[2]].data, data[k])
                    = Occurrences(data, data[k])
        /\ Populations = Len(data)

\* Samples at the largest RPM of the store, above the third cut point, sit in
\* the last RPM row, others sit in another row, and nothing was dropped.
C26_Witness ==
    /\ phase = "bucketed"
    /\ Len(data) >= 3
    /\ Populations = Len(data)
    /\ \E k \in 1..Len(data) :
          /\ data[k].rpm = rpmBoundaries[4]
          /\ rpmBoundaries[3] < rpmBoundaries[4]
          /\ BucketOfPoint(data[k])[1] = BUCKET_COUNT - 1
    /\ \E k \in 1..Len(data) : BucketOfPoint(data[k])[1] = 0

----------------------------------------------------------------------------
(* The Validator's report as a function of the table (SpecValidate)         *)

\* Every delay of the table lies in [0, 500) ms.
DelaysBelowTolerance(tbl) ==
    \A c \in Cells :
        tbl[c[1]][c[2]] # NULL =>
            (Val(tbl[c[1]][c[2]]) >= 0 /\ Val(tbl[c[1]][c[2]]) < 50000)

\* The two tables have the same non-null cells.
SameCells(tbl, other) ==
    \A c \in Cells : (tbl[c[1]][c[2]] = NULL) <=> (other[c[1]][c[2]] = NULL)

\* The lambdas of the store samples of bucket c, in store order.
RECURSIVE LambdasOfBucket(_, _)
LambdasOfBucket(c, k) ==
    IF k > Len(data) THEN <<>>
    ELSE (IF BucketOfPoint(data[k]) = c THEN <<data[k].lambda>> ELSE <<>>)
            \o LambdasOfBucket(c, k + 1)

\* C27: for one store, two tables with the same non-null cells whose delays
\* all lie in [0, 500) ms give the same report (the same accuracy lists, the
\* same avgStdDev, the same bucketsAnalyzed): every sample of a bucket with
\* a non-null cell is recorded, being itself less than 500 ms from its
\* target time, and the samples of the other buckets are not.
C27_ReportIndependentOfDelayValues ==
    (Validated /\ DelaysBelowTolerance(delayTable)) =>
        /\ \A tbl \in RowTables :
              (SameCells(tbl, delayTable) /\ DelaysBelowTolerance(tbl)) =>
                 calculateLambdaErrors(config, data, rpmBoundaries,
                                       loadBoundaries, tbl) = errors
        /\ \A c \in Cells :
              RecordedLambdas(c) =
                 IF delayTable[c[1]][c[2]] = NULL THEN <<>>
                 ELSE LambdasOfBucket(c, 1)

\* A table with a delay of 400 ms and a delay of 0 ms was applied to a store
\* sampled once a second: the nearest sample to each target is the sample
\* itself, both buckets were analysed, and a table with other delays below
\* 500 ms has the same non-null cells.
C27_Witness ==
    /\ Validated
    /\ DelaysBelowTolerance(delayTable)
    /\ Len(data) >= 2
    /\ data[2].time - data[1].time = 100
    /\ \E c \in Cells, d \in Cells :
          /\ delayTable[c[1]][c[2]] = Some(40000)
          /\ delayTable[d[1]][d[2]] = Some(0)
          /\ Len(RecordedLambdas(c)) >= MIN_LAMBDAS
          /\ Len(RecordedLambdas(d)) >= MIN_LAMBDAS
    /\ errors.bucketsAnalyzed >= 2
    /\ \E tbl \in RowTables :
          /\ tbl # delayTable
          /\ SameCells(tbl, delayTable)
          /\ DelaysBelowTolerance(tbl)

----------------------------------------------------------------------------
(* Specification SpecCrossVal: the cross-validation of one session by both  *)
(* multi-session scripts: a new analyzer parses the log, computes the       *)
(* boundaries and the buckets, and the delay table is validated by the      *)
(* linear-scan calculateLambdaErrors of the sequential script and by the    *)
(* binary-search calculateLambdaErrors of the parallel script's worker.     *)
(* The log is in time order; every timestamp occurs once or twice.          *)

\* The loop over analyzer.data of the worker, from index idx on.
RECURSIVE WorkerCollectLambdas(_, _, _, _, _, _, _)
WorkerCollectLambdas(cfg, d, rpmB, loadB, tbl, idx, bucketErrors) ==
    IF idx < Len(d)
    THEN LET point == At(d, idx)
             rpmBucket == getBucketIndex(cfg, point.rpm, rpmB)
             loadBucket == getBucketIndex(cfg, point.load, loadB)
         IN  IF rpmBucket = 0 - 1 \/ loadBucket = 0 - 1
             THEN WorkerCollectLambdas(cfg, d, rpmB, loadB, tbl, idx + 1,
                                       bucketErrors)
             ELSE IF tbl[rpmBucket][loadBucket] = NULL
             THEN WorkerCollectLambdas(cfg, d, rpmB, loadB, tbl, idx + 1,
                                       bucketErrors)
             ELSE LET targetMs ==
                          TargetTimeMs(point, Val(tbl[rpmBucket][loadBucket]))
                      closestIdx == findClosestIndex(TimesOf(d), targetMs)
                  IN  IF closestIdx # 0 - 1
                      THEN WorkerCollectLambdas(cfg, d, rpmB, loadB, tbl,
                             idx + 1,
                             PushLambda(bucketErrors, <<rpmBucket, loadBucket>>,
                                        point.lambda))
                      ELSE WorkerCollectLambdas(cfg, d, rpmB, loadB, tbl,
                                                idx + 1, bucketErrors)
    ELSE bucketErrors

\* calculateLambdaErrors of crossValWorkerCode.
workerCalculateLambdaErrors(cfg, d, rpmB, loadB, tbl) ==
    LET bucketErrors == WorkerCollectLambdas(cfg, d, rpmB, loadB, tbl, 0, <<>>)
        stdDevs == StdDevsOf(bucketErrors)
    IN  [bucketErrors |-> bucketErrors,
         avgStdDev |-> IF Len(stdDevs) > 0
                       THEN SumSeq(stdDevs) \div Len(stdDevs)
                       ELSE 0,
         bucketsAnalyzed |-> Len(stdDevs)]

CrossValRunLengths == {0, 1, MIN_LAMBDAS}

\* How many consecutive samples share a timestamp.
Repeats == {1, 2}

CrossValLogs ==
    {[k \in 1..(na + nb + nc) |->
        [ValidationRow(na, nb, k - 1, period) EXCEPT
            !.time = ((k - 1) \div rep) * period]] :
        na \in CrossValRunLengths, nb \in CrossValRunLengths,
        nc \in CrossValRunLengths, period \in SamplePeriods, rep \in Repeats}

InitCrossVal ==
    /\ input \in CrossValLogs
    /\ output = NotRun
    /\ config = MetaConfig
    /\ data = <<>>
    /\ rpmBoundaries = NULL
    /\ loadBoundaries = NULL
    /\ buckets = EmptyBuckets
    /\ table = NULL
    /\ phase = "parseFile"
    /\ ValidatorIdle /\ MetaIdle
    /\ PoolIdle /\ IoIdle

\* The same table validated on the same analyzer by the two scripts.
CrossValidate ==
    /\ phase = "bucketed"
    /\ \E tbl \in RowTables :
         /\ delayTable' = tbl
         /\ errors' = calculateLambdaErrors(config, data, rpmBoundaries,
                                            loadBoundaries, tbl)
         /\ output' = workerCalculateLambdaErrors(config, data, rpmBoundaries,
                                                  loadBoundaries, tbl)
    /\ phase' = "validated"
    /\ UNCHANGED <<input, analyzerVars, metaVars, poolVars, ioVars>>

NextCrossVal ==
    \/ ParseFile
    \/ CalculateBucketBoundaries
    \/ AssignToBuckets
    \/ CrossValidate

SpecCrossVal == InitCrossVal /\ [][NextCrossVal]_vars

\* C28: on a time-sorted store, duplicate timestamps included, and for every
\* delay table the binary-search validator of the parallel script and the
\* linear-scan validator of the sequential script record the same samples
\* into the same buckets, in the same order, and return the same avgStdDev
\* and bucketsAnalyzed.
C28_BinaryAndLinearValidatorsAgree ==
    Validated =>
        /\ output.bucketErrors = errors.bucketErrors
        /\ output.avgStdDev = errors.avgStdDev
        /\ output.bucketsAnalyzed = errors.bucketsAnalyzed

\* On a store with duplicate timestamps one bucket was analysed by both
\* validators with targets between the samples, and in another bucket both
\* rejected every sample, the nearest one being exactly 500 ms away.
C28_Witness ==
    /\ Validated
    /\ \E k \in 1..(Len(data) - 1) : data[k].time = data[k + 1].time
    /\ output.bucketsAnalyzed >= 1
    /\ \E c \in Cells :
          /\ delayTable[c[1]][c[2]] = Some(40000)
          /\ Len(RecordedLambdas(c)) >= MIN_LAMBDAS
    /\ \E c \in Cells :
          /\ delayTable[c[1]][c[2]] = Some(50000)
          /\ LambdasOfBucket(c, 1) # <<>>
          /\ RecordedLambdas(c) = <<>>
          /\ \A n \in 1..Len(output.bucketErrors) :
                output.bucketErrors[n].key # c

====
